---- MODULE Spec2Model ----
(***************************************************************************)
(* Model of the BONJOUR Robokassa desktop tool: the local payments ledger  *)
(* (database.py), the ResultURL listener (result_server.py) and the        *)
(* operator actions of the form (gui.py).                                  *)
(*                                                                         *)
(* Text values are sequences of one-character strings, so that substring   *)
(* and LIKE matching are computed rather than assumed.  Money is counted   *)
(* in kopecks.  NULL is the SQL NULL / Python None.                        *)
(***************************************************************************)
EXTENDS Integers, Sequences, FiniteSets, TLC

VARIABLES
    payments,   \* the rows of table payments, in insertion order
    lpc,        \* listener: "idle", "notify" (between the UPDATE and the SELECT), "done"
    lorder,     \* listener: Shp_order of the request being handled
    ldata,      \* listener: the other fields of the request being handled
    lresp,      \* listener: responses returned for the last request
    lescaped,   \* listener: an exception left handle() for the last request
    lfail,      \* listener: the call that failed during the last request
    alerts,     \* notify_admin_paid calls per order number since its last insert
    gui,        \* what the last operator action showed
    creds,      \* MERCHANT_LOGIN, PASSWORD1, PASSWORD2 as invoice.py holds them
    call,       \* the last traced operation: its inputs, its effects in order, its result
    schema,     \* the columns of table payments, or that there is no table
    config      \* config.json, the globals of config.py, and what telegram_utils holds

vars ==
    <<payments, lpc, lorder, ldata, lresp, lescaped, lfail, alerts, gui, creds, call,
      schema, config>>

----------------------------------------------------------------------------
(* Bounds *)

MaxRows == 2      \* rows the ledger may hold
MaxAlerts == 2    \* confirmations accepted per order number between two inserts
MaxLimit == 3     \* largest limit passed to get_recent_payments_for_order

NULL == <<"NULL">>    \* an absent text value (Python None)
NoInvoice == <<>>     \* invoice_id IS NULL; a stored id n is <<n>>

----------------------------------------------------------------------------
(* Text helpers *)

\* ASCII case folding, as SQLite's LIKE does for the characters used here
Lower(c) ==
    CASE c = "A" -> "a"
      [] c = "B" -> "b"
      [] OTHER -> c

\* SQLite: s LIKE p, where % is any run of characters, _ is any one
\* character, and letters compare case-insensitively
RECURSIVE SqlLike(_, _)
SqlLike(p, s) ==
    IF p = <<>> THEN s = <<>>
    ELSE IF Head(p) = "%"
         THEN \E k \in 0..Len(s) : SqlLike(Tail(p), SubSeq(s, k + 1, Len(s)))
    ELSE IF s = <<>> THEN FALSE
    ELSE IF Head(p) = "_" THEN SqlLike(Tail(p), Tail(s))
    ELSE Lower(Head(p)) = Lower(Head(s)) /\ SqlLike(Tail(p), Tail(s))

\* Python truthiness of an optional text
Truthy(v) == v # NULL /\ v # <<>>

----------------------------------------------------------------------------
(* Input domains *)

\* order numbers the operator types into the form
OrderNumbers == { <<"A", "1">>, <<"b">> }

\* Shp_order values a request may carry: absent, empty, known or unknown
ShpOrders == OrderNumbers \cup { NULL, <<>>, <<"Z">> }

\* text of the filter field of the payments tab
Filters == { <<>>, <<"a">>, <<"1">>, <<"_">> }

\* state of the form when "generate" is pressed
FormStates ==
    { [order |-> <<"A", "1">>, services |-> <<>>,      amount |-> "250",  base_total |-> 0],
      [order |-> <<"b">>,      services |-> <<"tea">>, amount |-> "",     base_total |-> 100],
      [order |-> <<>>,         services |-> <<"tea">>, amount |-> "250",  base_total |-> 0],
      [order |-> <<"b">>,      services |-> <<>>,      amount |-> "abc",  base_total |-> 0],
      [order |-> <<"b">>,      services |-> <<>>,      amount |-> "-100", base_total |-> 0] }

\* what the environment does during generate_payment:
\* create_invoice_and_get_link raises, insert_payment raises, or the
\* gateway returns (link, invoice id) and the insert goes through at the
\* wall-clock reading now
Outcomes ==
    { [kind |-> "invoice error",  link |-> <<>>,         invoice_id |-> NoInvoice, now |-> 1],
      [kind |-> "database error", link |-> <<"u", "1">>, invoice_id |-> <<7>>,     now |-> 1],
      [kind |-> "ok",             link |-> <<"u", "1">>, invoice_id |-> <<7>>,     now |-> 1],
      [kind |-> "ok",             link |-> <<"u", "2">>, invoice_id |-> NoInvoice, now |-> 2] }

\* state codes OpStateExt may report, or a failed query
StateCodes == { "100", "error" }

----------------------------------------------------------------------------
(* Ledger: database.py *)

MaxId(rows) == IF rows = <<>> THEN 0 ELSE rows[Len(rows)].id

\* an INSERT that takes the id of the newest row instead of a fresh one
insert_payment_reuse_id(rows, now, tg_user_id, tg_username, order_number, services, amount, payment_url, status, invoice_id) ==
    Append(rows,
           [id |-> IF rows = <<>> THEN 1 ELSE MaxId(rows),
            created_at |-> now,
            tg_user_id |-> tg_user_id,
            tg_username |-> tg_username,
            order_number |-> order_number,
            services |-> services,
            amount |-> amount,
            payment_url |-> payment_url,
            status |-> status,
            invoice_id |-> invoice_id])

\* INSERT INTO payments (...) VALUES (...); id is INTEGER PRIMARY KEY AUTOINCREMENT
insert_payment(rows, now, tg_user_id, tg_username, order_number, services, amount, payment_url, status, invoice_id) ==
    Append(rows,
           [id |-> MaxId(rows) + 1,
            created_at |-> now,
            tg_user_id |-> tg_user_id,
            tg_username |-> tg_username,
            order_number |-> order_number,
            services |-> services,
            amount |-> amount,
            payment_url |-> payment_url,
            status |-> status,
            invoice_id |-> invoice_id])

\* an UPDATE that flips the status of the matching rows
update_payment_status_toggle(rows, order_number, new_status) ==
    [rows |-> [i \in 1..Len(rows) |->
                  IF rows[i].order_number = order_number
                  THEN [rows[i] EXCEPT !.status =
                            IF rows[i].status = new_status THEN "created" ELSE new_status]
                  ELSE rows[i]],
     count |-> Cardinality({ i \in 1..Len(rows) : rows[i].order_number = order_number })]

\* an UPDATE that stops at the first matching row not yet in new_status
update_payment_status_one(rows, order_number, new_status) ==
    LET todo == { i \in 1..Len(rows) :
                    rows[i].order_number = order_number /\ rows[i].status # new_status }
        first == IF todo = {} THEN 0 ELSE CHOOSE i \in todo : \A j \in todo : i <= j
    IN  [rows |-> [i \in 1..Len(rows) |->
                      IF i = first THEN [rows[i] EXCEPT !.status = new_status] ELSE rows[i]],
         count |-> Cardinality({ i \in 1..Len(rows) : rows[i].order_number = order_number })]

\* an UPDATE that also stamps the matching rows
update_payment_status_touch(rows, order_number, new_status) ==
    [rows |-> [i \in 1..Len(rows) |->
                  IF rows[i].order_number = order_number
                  THEN [rows[i] EXCEPT !.status = new_status, !.created_at = 0]
                  ELSE rows[i]],
     count |-> Cardinality({ i \in 1..Len(rows) : rows[i].order_number = order_number })]

\* UPDATE payments SET status = ? WHERE order_number = ?; returns cur.rowcount,
\* the number of rows the WHERE clause matched
update_payment_status(rows, order_number, new_status) ==
    [rows |-> [i \in 1..Len(rows) |->
                  IF rows[i].order_number = order_number
                  THEN [rows[i] EXCEPT !.status = new_status]
                  ELSE rows[i]],
     count |-> Cardinality({ i \in 1..Len(rows) : rows[i].order_number = order_number })]

\* ORDER BY id DESC (id is the primary key, so ids are distinct)
RECURSIVE OrderByIdDesc(_)
OrderByIdDesc(rows) ==
    IF rows = <<>> THEN <<>>
    ELSE LET m == CHOOSE i \in 1..Len(rows) :
                      \A j \in 1..Len(rows) : rows[j].id <= rows[i].id
             rest == [k \in 1..(Len(rows) - 1) |->
                         IF k < m THEN rows[k] ELSE rows[k + 1]]
         IN  <<rows[m]>> \o OrderByIdDesc(rest)

\* SQLite LIMIT n: a negative n means no limit
Limit(rows, n) ==
    IF n < 0 \/ n >= Len(rows) THEN rows ELSE SubSeq(rows, 1, n)

\* SELECT ... WHERE order_number = ? ORDER BY id DESC LIMIT 1; fetchone():
\* <<>> stands for None, <<row>> for the row
get_last_payment(rows, order_number) ==
    LET Match(r) == r.order_number = order_number
    IN  Limit(OrderByIdDesc(SelectSeq(rows, Match)), 1)

\* the same SELECT without ORDER BY id DESC (rows come back oldest first)
get_recent_payments_for_order_unordered(rows, order_number, limit) ==
    LET Match(r) == r.order_number = order_number
    IN  Limit(SelectSeq(rows, Match), limit)

\* SELECT ... WHERE order_number = ? ORDER BY id DESC LIMIT {int(limit)}
get_recent_payments_for_order(rows, order_number, limit) ==
    LET Match(r) == r.order_number = order_number
    IN  Limit(OrderByIdDesc(SelectSeq(rows, Match)), limit)

\* SELECT ... [WHERE order_number LIKE '%' || filter || '%'] ORDER BY id DESC
get_payments(rows, filter_order) ==
    IF filter_order # <<>>
    THEN LET Match(r) == SqlLike(<<"%">> \o filter_order \o <<"%">>, r.order_number)
         IN  OrderByIdDesc(SelectSeq(rows, Match))
    ELSE OrderByIdDesc(rows)

----------------------------------------------------------------------------
(* Schema: init_db *)

MaxRuns == 2      \* times init_db is run on one store

\* the columns of CREATE_TABLE_SQL, and those of the table before invoice_id
\* was added to it
CurrentColumns ==
    { "id", "created_at", "tg_user_id", "tg_username", "order_number", "services",
      "amount", "payment_url", "status", "invoice_id" }
OldColumns == CurrentColumns \ { "invoice_id" }

NoTable == [table |-> FALSE, columns |-> {}]
Table(columns) == [table |-> TRUE, columns |-> columns]

Store(sch, rows, raised) == [schema |-> sch, rows |-> rows, raised |-> raised]

\* ALTER TABLE payments ADD COLUMN column: the rows that are there get NULL
AddColumn(rows, column) ==
    [i \in 1..Len(rows) |->
        [c \in DOMAIN rows[i] \cup { column } |->
            IF c \in DOMAIN rows[i] THEN rows[i][c] ELSE NoInvoice]]

\* an init_db that drops the table and creates it anew
init_db_recreate(sch, rows) ==
    Store(Table(CurrentColumns), <<>>, FALSE)

\* init_db: CREATE TABLE IF NOT EXISTS, then ALTER TABLE ... ADD COLUMN
\* invoice_id inside try/except; SQLite refuses the ALTER when the column
\* exists, and the exception is swallowed
init_db(sch, rows) ==
    LET created == IF sch.table THEN Store(sch, rows, FALSE)
                   ELSE Store(Table(CurrentColumns), <<>>, FALSE)
    IN  IF "invoice_id" \in created.schema.columns
        THEN created
        ELSE Store(Table(created.schema.columns \cup { "invoice_id" }),
                   AddColumn(created.rows, "invoice_id"), FALSE)

\* a row as it is stored under the given columns
StoredRow(columns, id, order_number, status, invoice_id) ==
    [c \in columns |->
        CASE c = "id" -> id
          [] c = "created_at" -> id
          [] c = "tg_user_id" -> 0
          [] c = "tg_username" -> <<>>
          [] c = "order_number" -> order_number
          [] c = "services" -> << "tea" >>
          [] c = "amount" -> 100
          [] c = "payment_url" -> << "u", "1" >>
          [] c = "status" -> status
          [] OTHER -> invoice_id]

\* the ledgers of up to MaxRows rows a store with these columns may hold
StoredLedgers(columns) ==
    UNION { { [i \in 1..n |-> StoredRow(columns, i, o[i], st[i], inv[i])] :
                o \in [1..n -> OrderNumbers],
                st \in [1..n -> { "created", "paid" }],
                inv \in [1..n -> IF "invoice_id" \in columns
                                 THEN { NoInvoice, << 7 >> } ELSE { NoInvoice }] } :
            n \in 0..MaxRows }

\* init_db is about to run on a store of the given kind for the first time
PendingInitDb(kind) == [op |-> "init_db", phase |-> "pending", store |-> kind, runs |-> 0, raised |-> FALSE]

\* one run of init_db (main() runs it once at each start of the program)
InitDb ==
    /\ call.op = "init_db"
    /\ call.runs < MaxRuns
    /\ \E out \in { init_db(schema, payments) } :
           /\ schema' = out.schema
           /\ payments' = out.rows
           /\ call' = [call EXCEPT !.phase = "done", !.runs = @ + 1,
                                   !.raised = @ \/ out.raised]
    /\ UNCHANGED <<lpc, lorder, ldata, lresp, lescaped, lfail, alerts, gui, creds, config>>

----------------------------------------------------------------------------
(* Form: gui.py *)

\* float(text.replace(",", ".")) on the texts of FormStates
IsNumber(text) == text \in { "250", "0", "-100" }

ToNumber(text) ==
    CASE text = "250" -> 250
      [] text = "-100" -> 0 - 100
      [] OTHER -> 0

\* App._get_current_amount: [ok, amount]; ok = FALSE stands for ValueError
_get_current_amount(form) ==
    IF form.amount = "" THEN [ok |-> TRUE, amount |-> form.base_total]
    ELSE IF ~IsNumber(form.amount) THEN [ok |-> FALSE, amount |-> 0]
    ELSE IF ToNumber(form.amount) <= 0 THEN [ok |-> FALSE, amount |-> 0]
    ELSE [ok |-> TRUE, amount |-> ToNumber(form.amount)]

\* services defaults to the text "payment of order <order_number>" when the box is empty
ServicesOf(form) ==
    IF form.services = <<>> THEN <<"payment of order ">> \o form.order ELSE form.services

\* APP_CONFIG.get("user_chat_id") or 0, with the default configuration
user_chat_id == 0

Ids(rows) == [i \in 1..Len(rows) |-> rows[i].id]

Shown(op, result, rows) == [op |-> op, result |-> result, ids |-> Ids(rows)]

\* App.generate_payment: one press of the button, from the form to the dialog
GeneratePayment ==
    /\ Len(payments) < MaxRows
    /\ \E form \in FormStates, outcome \in Outcomes :
        LET order_number == form.order
            amt == _get_current_amount(form)
        IN  /\ IF order_number = <<>>
               THEN /\ gui' = Shown("generate_payment", <<"warning: order number">>, <<>>)
                    /\ UNCHANGED <<payments, alerts>>
               ELSE IF ~amt.ok
               THEN /\ gui' = Shown("generate_payment", <<"error: amount">>, <<>>)
                    /\ UNCHANGED <<payments, alerts>>
               ELSE IF outcome.kind = "invoice error"
               THEN /\ gui' = Shown("generate_payment", <<"error: invoice">>, <<>>)
                    /\ UNCHANGED <<payments, alerts>>
               ELSE IF outcome.kind = "database error"
               THEN /\ gui' = Shown("generate_payment", <<"error: database">>, <<>>)
                    /\ UNCHANGED <<payments, alerts>>
               ELSE /\ payments' = insert_payment(payments, outcome.now, user_chat_id, <<>>,
                                                  order_number, ServicesOf(form), amt.amount,
                                                  outcome.link, "created", outcome.invoice_id)
                    /\ alerts' = [alerts EXCEPT ![order_number] = 0]
                    /\ gui' = Shown("generate_payment", <<"created">>, <<>>)
    /\ UNCHANGED <<lpc, lorder, ldata, lresp, lescaped, lfail, creds, call, schema, config>>

\* App.check_payment_status: show the last attempt of an order
CheckPaymentStatus ==
    /\ \E order_number \in OrderNumbers \cup { <<>> }, dbFail \in BOOLEAN :
        IF order_number = <<>>
        THEN gui' = Shown("check_payment_status", <<"warning: order number">>, <<>>)
        ELSE IF dbFail
        THEN gui' = Shown("check_payment_status", <<"error: database">>, <<>>)
        ELSE LET row == get_last_payment(payments, order_number)
             IN  IF row = <<>>
                 THEN gui' = Shown("check_payment_status", <<"not found">>, <<>>)
                 ELSE gui' = Shown("check_payment_status", <<row[1].status>>, <<>>)
    /\ UNCHANGED <<payments, alerts, lpc, lorder, ldata, lresp, lescaped, lfail, creds, call, schema, config>>

\* limit=3 in App.check_online_status
RecentLimit == 3

\* state_map.get(state_code or "", <status undetermined>)
StateText(code) ==
    CASE code = "5" -> "awaiting payment"
      [] code = "10" -> "cancelled"
      [] code = "20" -> "funds held"
      [] code = "50" -> "funds credited"
      [] code = "60" -> "credit refused"
      [] code = "80" -> "execution suspended"
      [] code = "100" -> "paid"
      [] OTHER -> "status undetermined"

\* the status text of one line of the report of check_online_status, given
\* what the status query for the row produced
OnlineLine(row, code) ==
    IF row.invoice_id = NoInvoice THEN "no online status"
    ELSE IF code = "error" THEN "status query failed"
    ELSE StateText(code)

\* the report of check_online_status: the statuses of the attempts, newest first
OnlineReport(rows, codes) == [i \in 1..Len(rows) |-> OnlineLine(rows[i], codes[i])]

\* a check_online_status that marks the order paid when the gateway says 100
CheckOnlineStatus_marks_paid ==
    /\ \E order_number \in OrderNumbers \cup { <<>> }, dbFail \in BOOLEAN :
        IF order_number = <<>>
        THEN /\ gui' = Shown("check_online_status", <<"warning: order number">>, <<>>)
             /\ UNCHANGED payments
        ELSE IF dbFail
        THEN /\ gui' = Shown("check_online_status", <<"error: database">>, <<>>)
             /\ UNCHANGED payments
        ELSE LET rows == get_recent_payments_for_order(payments, order_number, RecentLimit)
             IN  IF rows = <<>>
                 THEN /\ gui' = Shown("check_online_status", <<"not found">>, <<>>)
                      /\ UNCHANGED payments
                 ELSE \E codes \in [1..Len(rows) -> StateCodes] :
                          /\ gui' = Shown("check_online_status", OnlineReport(rows, codes), <<>>)
                          /\ IF \E i \in 1..Len(rows) : OnlineLine(rows[i], codes[i]) = "paid"
                             THEN payments' = update_payment_status(payments, order_number, "paid").rows
                             ELSE UNCHANGED payments
    /\ UNCHANGED <<alerts, lpc, lorder, ldata, lresp, lescaped, lfail, creds, call, schema, config>>

\* App.check_online_status: query the gateway for the last 3 attempts; codes
\* are the outcomes of the status queries ("error" when the query raises)
CheckOnlineStatus ==
    /\ \E order_number \in OrderNumbers \cup { <<>> }, dbFail \in BOOLEAN :
        IF order_number = <<>>
        THEN gui' = Shown("check_online_status", <<"warning: order number">>, <<>>)
        ELSE IF dbFail
        THEN gui' = Shown("check_online_status", <<"error: database">>, <<>>)
        ELSE LET rows == get_recent_payments_for_order(payments, order_number, RecentLimit)
             IN  IF rows = <<>>
                 THEN gui' = Shown("check_online_status", <<"not found">>, <<>>)
                 ELSE \E codes \in [1..Len(rows) -> StateCodes] :
                          gui' = Shown("check_online_status", OnlineReport(rows, codes), <<>>)
    /\ UNCHANGED <<payments, alerts, lpc, lorder, ldata, lresp, lescaped, lfail, creds, call, schema, config>>

\* App.refresh_payments: fill the table of the payments tab
RefreshPayments ==
    /\ \E flt \in Filters :
        gui' = Shown("refresh_payments", <<"table">>, get_payments(payments, flt))
    /\ UNCHANGED <<payments, alerts, lpc, lorder, ldata, lresp, lescaped, lfail, creds, call, schema, config>>

\* App.export_payments_csv: write every row to a file
ExportPaymentsCsv ==
    /\ \E outcome \in { "cancelled", "file error", "saved" } :
        IF outcome = "cancelled"
        THEN gui' = Shown("export_payments_csv", <<"cancelled">>, <<>>)
        ELSE IF outcome = "file error"
        THEN gui' = Shown("export_payments_csv", <<"error: file">>, <<>>)
        ELSE gui' = Shown("export_payments_csv", <<"saved">>, get_payments(payments, <<>>))
    /\ UNCHANGED <<payments, alerts, lpc, lorder, ldata, lresp, lescaped, lfail, creds, call, schema, config>>

----------------------------------------------------------------------------
(* Listener: result_server.py *)

OK200 == [status |-> 200, text |-> "OK"]
Error500 == [status |-> 500, text |-> "Error"]

\* an except clause that lets the exception through
OnException_reraise == [resp |-> <<>>, escaped |-> TRUE]

\* the except clause of ResultHandler.handle: every Exception becomes a 500
OnException == [resp |-> <<Error500>>, escaped |-> FALSE]

\* OutSum, InvId and SignatureValue of a request that has none of them
NoFields == [OutSum |-> NULL, InvId |-> NULL, SignatureValue |-> NULL]

\* the requests the listener may get: a GET with nothing but Shp_order, as
\* typed by hand, or a POST with all the fields, as the gateway sends it
ResultRequests ==
    { [body |-> "GET", data |-> [OutSum |-> NULL, InvId |-> NULL, SignatureValue |-> NULL,
                                  Shp_order |-> o]] : o \in ShpOrders }
    \cup
    { [body |-> "POST", data |-> [OutSum |-> << "2", "5", "0" >>, InvId |-> << "7" >>,
                                   SignatureValue |-> << "s", "i", "g" >>,
                                   Shp_order |-> o]] : o \in ShpOrders }
    \cup
    { [body |-> "POST unreadable",
       data |-> [OutSum |-> NULL, InvId |-> NULL, SignatureValue |-> NULL, Shp_order |-> NULL]] }

Handled(rows, pc, order, resp, escaped, fail) ==
    [payments |-> rows, lpc |-> pc, lorder |-> order, lresp |-> resp,
     lescaped |-> escaped, lfail |-> fail]

\* the fields of data besides Shp_order
FieldsOf(data) ==
    [OutSum |-> data.OutSum, InvId |-> data.InvId, SignatureValue |-> data.SignatureValue]

\* a handler that marks the order paid only for a request that carries a
\* signature
handle_signed_only(rows, body, data, dbFail) ==
    LET shp_order == data.Shp_order
        updated == update_payment_status(rows, shp_order, "paid")
    IN  IF body = "POST unreadable"
        THEN Handled(rows, "done", NULL, OnException.resp, OnException.escaped, "request.post")
        ELSE IF ~Truthy(shp_order) \/ ~Truthy(data.SignatureValue)
        THEN Handled(rows, "done", NULL, << OK200 >>, FALSE, "none")
        ELSE IF dbFail
        THEN Handled(rows, "done", NULL, OnException.resp, OnException.escaped,
                     "update_payment_status")
        ELSE IF updated.count # 0
        THEN Handled(updated.rows, "notify", shp_order, <<>>, FALSE, "none")
        ELSE Handled(updated.rows, "done", NULL, << OK200 >>, FALSE, "none")

\* a handler that goes on to the alert whatever the UPDATE counted
handle_notify_unmatched(rows, body, data, dbFail) ==
    LET shp_order == data.Shp_order
        updated == update_payment_status(rows, shp_order, "paid")
    IN  IF body = "POST unreadable"
        THEN Handled(rows, "done", NULL, OnException.resp, OnException.escaped, "request.post")
        ELSE IF ~Truthy(shp_order)
        THEN Handled(rows, "done", NULL, << OK200 >>, FALSE, "none")
        ELSE IF dbFail
        THEN Handled(rows, "done", NULL, OnException.resp, OnException.escaped,
                     "update_payment_status")
        ELSE Handled(updated.rows, "notify", shp_order, <<>>, FALSE, "none")

\* ResultHandler.handle up to and including update_payment_status: body is
\* the request as received (a query string, a readable or an unreadable
\* form), data its fields, dbFail whether the UPDATE raises
handle(rows, body, data, dbFail) ==
    LET shp_order == data.Shp_order
        updated == update_payment_status(rows, shp_order, "paid")
    IN  IF body = "POST unreadable"
        THEN Handled(rows, "done", NULL, OnException.resp, OnException.escaped, "request.post")
        ELSE IF ~Truthy(shp_order)
        THEN Handled(rows, "done", NULL, << OK200 >>, FALSE, "none")
        ELSE IF dbFail
        THEN Handled(rows, "done", NULL, OnException.resp, OnException.escaped,
                     "update_payment_status")
        ELSE IF updated.count # 0
        THEN Handled(updated.rows, "notify", shp_order, <<>>, FALSE, "none")
        ELSE Handled(updated.rows, "done", NULL, << OK200 >>, FALSE, "none")

\* a request arrives and is handled up to the UPDATE
Arrives(request, dbFail) ==
    /\ lpc \in { "idle", "done" }
    /\ request.data.Shp_order \in OrderNumbers => alerts[request.data.Shp_order] < MaxAlerts
    /\ dbFail => request.body # "POST unreadable" /\ Truthy(request.data.Shp_order)
    /\ \E h \in { handle(payments, request.body, request.data, dbFail) } :
           /\ payments' = h.payments
           /\ lpc' = h.lpc
           /\ lorder' = h.lorder
           /\ lresp' = h.lresp
           /\ lescaped' = h.lescaped
           /\ lfail' = h.lfail
    /\ UNCHANGED <<alerts, gui, creds, call, schema, config>>

ResultRequest ==
    \E request \in ResultRequests, dbFail \in BOOLEAN :
        Arrives(request, dbFail) /\ UNCHANGED ldata

\* the same, keeping the fields of the request that is about to alert
ResultRequestTraced ==
    \E request \in ResultRequests, dbFail \in BOOLEAN :
        /\ Arrives(request, dbFail)
        /\ ldata' = IF lpc' = "notify" THEN FieldsOf(request.data) ELSE NoFields

\* ResultHandler.handle from get_last_payment to the response, fail being
\* the call that fails: an exception of get_last_payment is swallowed by
\* handle, a failed sendMessage by notify_admin_paid itself
Notifies(fail) ==
    /\ lpc = "notify"
    /\ LET row == get_last_payment(payments, lorder)
           called == fail # "get_last_payment" /\ row # <<>>
       IN  /\ fail = "sendMessage" => called
           /\ lfail' = fail
           /\ IF called
              THEN alerts' = [alerts EXCEPT ![lorder] = @ + 1]
              ELSE UNCHANGED alerts
    /\ lresp' = <<OK200>>
    /\ lpc' = "done"
    /\ lorder' = NULL
    /\ UNCHANGED <<payments, lescaped, gui, creds, call, schema, config>>

ResultNotify ==
    \E fail \in { "none", "get_last_payment" } :
        Notifies(fail) /\ ldata' = NoFields

\* the same, telling a failed sendMessage from a delivered alert
ResultNotifyTraced ==
    \E fail \in { "none", "get_last_payment", "sendMessage" } :
        Notifies(fail) /\ ldata' = NoFields

----------------------------------------------------------------------------
(* Invoice API: invoice.py *)

MaxLinks == 2     \* link fields a CreateInvoice response may carry

\* the three values as invoice.py may hold them: all set, or one of them empty
Configured == [MERCHANT_LOGIN |-> "shop", PASSWORD1 |-> "p1", PASSWORD2 |-> "p2"]
CredSets ==
    { Configured,
      [Configured EXCEPT !.MERCHANT_LOGIN = ""],
      [Configured EXCEPT !.PASSWORD1 = ""],
      [Configured EXCEPT !.PASSWORD2 = ""] }

\* the keys create_invoice_and_get_link reads from the response, in the
\* order it reads them
LinkKeys == << "invoiceUrl", "InvoiceUrl", "url", "Url", "paymentUrl", "PaymentUrl" >>
IdKeys == << "invId", "invoiceId", "InvoiceId" >>
Range(s) == { s[i] : i \in 1..Len(s) }
DataKeys == { "message" } \cup Range(LinkKeys) \cup Range(IdKeys)

\* the value a response carries under key k when the key is present and not
\* empty: each key has its own, so that the key a result came from shows
ValueOf(k) ==
    CASE k = "message" -> << "b", "a", "d", " ", "s", "u", "m" >>
      [] k = "invId" -> << "7" >>
      [] k = "invoiceId" -> << "8" >>
      [] k = "InvoiceId" -> << "9" >>
      [] OTHER -> << "h", "/", k >>

\* the link fields of a response: at most MaxLinks keys present, each present
\* key empty or carrying its value
LinkFields ==
    UNION { { [k \in Range(LinkKeys) |->
                 IF k \notin S THEN NULL ELSE IF k \in E THEN <<>> ELSE ValueOf(k)] :
              E \in SUBSET S } :
            S \in { T \in SUBSET Range(LinkKeys) : Cardinality(T) <= MaxLinks } }

\* a parsed JSON object seen through data.get: NULL under every missing key
JsonObjects ==
    { [k \in DataKeys |->
         IF k = "message" THEN m
         ELSE IF k \in Range(IdKeys) THEN (IF k = i THEN ValueOf(k) ELSE NULL)
         ELSE l[k]] :
      m \in { NULL, <<>>, ValueOf("message") },
      i \in Range(IdKeys) \cup { "none" },
      l \in LinkFields }

\* what the gateway may do with the POST: no response, a body that is not
\* JSON, JSON that is not an object, or an object with or without isSuccess
InvoiceReplies ==
    { [post |-> p, json |-> "none", isSuccess |-> "absent", data |-> [k \in DataKeys |-> NULL]] :
        p \in { "timeout", "connection error" } }
    \cup
    { [post |-> "response", json |-> j, isSuccess |-> "absent", data |-> [k \in DataKeys |-> NULL]] :
        j \in { "not json", "list" } }
    \cup
    { [post |-> "response", json |-> "object", isSuccess |-> s, data |-> d] :
        s \in { "true", "false", "absent" }, d \in JsonObjects }

\* an invoice item that is billed twice
InvoiceItem_twice(item_name, amount) ==
    [Name |-> item_name, Quantity |-> 2, Cost |-> amount, Tax |-> "none",
     PaymentMethod |-> "full_payment", PaymentObject |-> "service"]

\* the one element of InvoiceItems in payload_obj (TAX is "none" unless set)
InvoiceItem(item_name, amount) ==
    [Name |-> item_name, Quantity |-> 1, Cost |-> amount, Tax |-> "none",
     PaymentMethod |-> "full_payment", PaymentObject |-> "service"]

\* a build_invoice_jwt that signs with whatever it holds
build_invoice_jwt_unchecked(c, description, amount, item_name) ==
    [ok |-> TRUE, MerchantLogin |-> c.MERCHANT_LOGIN, OutSum |-> amount,
     Description |-> description, Name |-> item_name,
     InvoiceItems |-> << InvoiceItem(item_name, amount) >>]

\* build_invoice_jwt: raises unless a login and Password1 are set; the payload
\* carries the login, the amount as OutSum and the one invoice item
build_invoice_jwt(c, description, amount, item_name) ==
    [ok |-> c.MERCHANT_LOGIN # "" /\ c.PASSWORD1 # "",
     MerchantLogin |-> c.MERCHANT_LOGIN, OutSum |-> amount,
     Description |-> description, Name |-> item_name,
     InvoiceItems |-> << InvoiceItem(item_name, amount) >>]

\* a chain that stops at the first key that is present, empty or not
OrChain_first_present(data, keys) ==
    LET RECURSIVE From(_)
        From(i) == IF i = Len(keys) \/ data[keys[i]] # NULL
                   THEN data[keys[i]]
                   ELSE From(i + 1)
    IN  From(1)

\* Python's  a or b or ...  over the values under keys: the first truthy
\* value, else the value under the last key
OrChain(data, keys) ==
    LET RECURSIVE From(_)
        From(i) == IF i = Len(keys) \/ Truthy(data[keys[i]])
                   THEN data[keys[i]]
                   ELSE From(i + 1)
    IN  From(1)

\* the result of a gateway call: exc is the exception type that left the
\* function ("none" on return), effects the requests and log records it made
Raised(exc, msg, effects) ==
    [exc |-> exc, msg |-> msg, link |-> NULL, invoice_id |-> NULL, StateCode |-> <<>>,
     effects |-> effects]
Returned(link, invoice_id, effects) ==
    [exc |-> "none", msg |-> <<>>, link |-> link, invoice_id |-> invoice_id,
     StateCode |-> <<>>, effects |-> effects]

\* a log_invoice_debug without its  except Exception: pass
log_invoice_debug_raises(writable) ==
    IF writable THEN [records |-> << "debug record" >>, exc |-> "none"]
    ELSE [records |-> <<>>, exc |-> "OSError"]

\* log_invoice_debug: one record appended (with the JSON of the response,
\* or its raw text when it is not JSON), or nothing when the file cannot be
\* written; exc is the exception that leaves the function, and the except
\* clause around its whole body lets none out
log_invoice_debug(writable) ==
    IF writable THEN [records |-> << "debug record" >>, exc |-> "none"]
    ELSE [records |-> <<>>, exc |-> "none"]

NoLinkText == << "Invoice API did not return a payment link" >>
UnknownErrorText == << "unknown Invoice API error" >>
ErrorPrefix == << "Robokassa returned an error: " >>

\* a create_invoice_and_get_link that looks for the link before it looks at
\* isSuccess
create_invoice_and_get_link_link_first(c, description, amount, item_name, reply, writable) ==
    LET jwt == build_invoice_jwt(c, description, amount, item_name)
        sent == << "POST CreateInvoice" >>
        log == log_invoice_debug(writable)
        logged == sent \o log.records
        link == OrChain(reply.data, LinkKeys)
        invoice_id == OrChain(reply.data, IdKeys)
    IN  IF ~jwt.ok
        THEN Raised("RuntimeError", << "MerchantLogin / Password1 not set" >>, <<>>)
        ELSE IF reply.post # "response"
        THEN Raised("RuntimeError", << "cannot reach Invoice API: ", reply.post >>, sent)
        ELSE IF log.exc # "none"
        THEN Raised(log.exc, << "cannot write the debug log" >>, logged)
        ELSE IF reply.json = "not json"
        THEN Raised("RuntimeError", << "Invoice API answered with something that is not JSON" >>, logged)
        ELSE IF reply.json # "object"
        THEN Raised("AttributeError", << "object has no attribute 'get'" >>, logged)
        ELSE IF Truthy(link)
        THEN Returned(link, invoice_id, logged)
        ELSE Raised("RuntimeError", NoLinkText, logged)

\* create_invoice_and_get_link: reply is what the gateway does with the POST,
\* writable whether the debug log can be appended to
create_invoice_and_get_link(c, description, amount, item_name, reply, writable) ==
    LET jwt == build_invoice_jwt(c, description, amount, item_name)
        sent == << "POST CreateInvoice" >>
        log == log_invoice_debug(writable)
        logged == sent \o log.records
        msg == IF Truthy(reply.data["message"]) THEN reply.data["message"] ELSE UnknownErrorText
        link == OrChain(reply.data, LinkKeys)
        invoice_id == OrChain(reply.data, IdKeys)
    IN  IF ~jwt.ok
        THEN Raised("RuntimeError", << "MerchantLogin / Password1 not set" >>, <<>>)
        ELSE IF reply.post # "response"
        THEN Raised("RuntimeError", << "cannot reach Invoice API: ", reply.post >>, sent)
        ELSE IF log.exc # "none"
        THEN Raised(log.exc, << "cannot write the debug log" >>, logged)
        ELSE IF reply.json = "not json"
        THEN Raised("RuntimeError", << "Invoice API answered with something that is not JSON" >>, logged)
        ELSE IF reply.json # "object"
        THEN Raised("AttributeError", << "object has no attribute 'get'" >>, logged)
        ELSE IF reply.isSuccess # "true"
        THEN Raised("RuntimeError", ErrorPrefix \o msg, logged)
        ELSE IF ~Truthy(link)
        THEN Raised("RuntimeError", NoLinkText, logged)
        ELSE Returned(link, invoice_id, logged)

----------------------------------------------------------------------------
(* The invoice token: invoice.py 87-100.  Texts are sequences of bytes     *)
(* here, as json.dumps(...).encode("utf-8") produces them.                 *)

MaxAmount == 3    \* amounts 10^0 .. 10^MaxAmount are put into a token

\* str.encode("utf-8") of the values of CredSets
Utf8(text) ==
    CASE text = "shop" -> << 115, 104, 111, 112 >>
      [] text = "p1" -> << 112, 49 >>
      [] text = "p2" -> << 112, 50 >>
      [] text = "none" -> << 110, 111, 110, 101 >>
      [] text = "full_payment" -> << 102, 117, 108, 108, 95, 112, 97, 121, 109, 101, 110, 116 >>
      [] text = "service" -> << 115, 101, 114, 118, 105, 99, 101 >>
      [] OTHER -> <<>>

\* the decimal digits of a natural number, as bytes
RECURSIVE Digits(_)
Digits(n) == IF n < 10 THEN << 48 + n >> ELSE Digits(n \div 10) \o << 48 + (n % 10) >>

\* json.dumps of float(amount) for a whole amount: 250 gives 250.0
float_repr(amount) == Digits(amount) \o << 46, 48 >>

\* json.dumps of a str with ensure_ascii=False: quoted, with " and \ escaped
RECURSIVE json_escape(_)
json_escape(b) ==
    IF b = <<>> THEN <<>>
    ELSE (IF Head(b) \in { 34, 92 } THEN << 92, Head(b) >> ELSE << Head(b) >>)
         \o json_escape(Tail(b))

json_string(b) == << 34 >> \o json_escape(b) \o << 34 >>

\* json.dumps(header_obj, separators=(",", ":")):  {"typ":"JWT","alg":"MD5"}
header_json ==
    << 123, 34, 116, 121, 112, 34, 58, 34, 74, 87, 84, 34, 44, 34, 97, 108, 103, 34, 58, 34,
       77, 68, 53, 34, 125 >>

\* json.dumps(item, separators=(",", ":")) of one element of InvoiceItems:
\*   {"Name":..,"Quantity":..,"Cost":..,"Tax":..,"PaymentMethod":..,"PaymentObject":..}
item_json(item) ==
    << 123, 34, 78, 97, 109, 101, 34, 58 >> \o json_string(item.Name)
    \o << 44, 34, 81, 117, 97, 110, 116, 105, 116, 121, 34, 58 >> \o Digits(item.Quantity)
    \o << 44, 34, 67, 111, 115, 116, 34, 58 >> \o float_repr(item.Cost)
    \o << 44, 34, 84, 97, 120, 34, 58 >> \o json_string(Utf8(item.Tax))
    \o << 44, 34, 80, 97, 121, 109, 101, 110, 116, 77, 101, 116, 104, 111, 100, 34, 58 >>
    \o json_string(Utf8(item.PaymentMethod))
    \o << 44, 34, 80, 97, 121, 109, 101, 110, 116, 79, 98, 106, 101, 99, 116, 34, 58 >>
    \o json_string(Utf8(item.PaymentObject))
    \o << 125 >>

\* json.dumps(payload_obj, ensure_ascii=False, separators=(",", ":")):
\*   {"MerchantLogin":..,"InvoiceType":"OneTime","Culture":"ru","OutSum":..,
\*    "Description":..,"InvoiceItems":[..]}
payload_json(payload_obj) ==
    << 123, 34, 77, 101, 114, 99, 104, 97, 110, 116, 76, 111, 103, 105, 110, 34, 58 >>
    \o json_string(Utf8(payload_obj.MerchantLogin))
    \o << 44, 34, 73, 110, 118, 111, 105, 99, 101, 84, 121, 112, 101, 34, 58 >>
    \o json_string(<< 79, 110, 101, 84, 105, 109, 101 >>)
    \o << 44, 34, 67, 117, 108, 116, 117, 114, 101, 34, 58 >> \o json_string(<< 114, 117 >>)
    \o << 44, 34, 79, 117, 116, 83, 117, 109, 34, 58 >> \o float_repr(payload_obj.OutSum)
    \o << 44, 34, 68, 101, 115, 99, 114, 105, 112, 116, 105, 111, 110, 34, 58 >>
    \o json_string(payload_obj.Description)
    \o << 44, 34, 73, 110, 118, 111, 105, 99, 101, 73, 116, 101, 109, 115, 34, 58, 91 >>
    \o item_json(payload_obj.InvoiceItems[1])
    \o << 93, 125 >>

\* the base64url alphabet: A-Z a-z 0-9 - _
B64Char(i) ==
    IF i < 26 THEN 65 + i
    ELSE IF i < 52 THEN 97 + (i - 26)
    ELSE IF i < 62 THEN 48 + (i - 52)
    ELSE IF i = 62 THEN 45
    ELSE 95

\* base64.urlsafe_b64encode: every three bytes give four characters, the
\* last group is filled with "="
urlsafe_b64encode(b) ==
    LET n == Len(b)
        At(i) == IF i <= n THEN b[i] ELSE 0
    IN  [j \in 1..(4 * ((n + 2) \div 3)) |->
            LET g == 3 * ((j - 1) \div 4)
                k == (j - 1) % 4
            IN  CASE k = 0 -> B64Char(At(g + 1) \div 4)
                  [] k = 1 -> B64Char((At(g + 1) % 4) * 16 + (At(g + 2) \div 16))
                  [] k = 2 -> IF g + 2 <= n
                              THEN B64Char((At(g + 2) % 16) * 4 + (At(g + 3) \div 64))
                              ELSE 61
                  [] OTHER -> IF g + 3 <= n THEN B64Char(At(g + 3) % 64) ELSE 61]

\* str.rstrip("=")
RECURSIVE rstrip_pad(_)
rstrip_pad(b) ==
    IF b # <<>> /\ b[Len(b)] = 61 THEN rstrip_pad(SubSeq(b, 1, Len(b) - 1)) ELSE b

\* hmac.new(key, msg, hashlib.md5).digest(): sixteen bytes that depend on
\* the key and on the message.  MD5 itself is replaced by a weighted
\* checksum; what is kept is that the digest is a function of the pair
\* (key, message) and changes with either
hmac_md5(key, msg) ==
    LET b == key \o << 0 >> \o msg
        RECURSIVE Sum(_, _)
        Sum(lo, hi) ==
            IF lo > hi THEN 0
            ELSE IF lo = hi THEN (b[lo] * (1 + (lo % 13))) % 251
            ELSE LET mid == (lo + hi) \div 2
                 IN  (Sum(lo, mid) + Sum(mid + 1, hi)) % 251
        seed == Sum(1, Len(b))
    IN  [k \in 1..16 |-> (seed * k + Len(b) + 7 * k) % 256]

\* a signing that takes the MAC over the padded segments
jwt_token_signs_padded(c, payload_obj) ==
    LET header_b64 == urlsafe_b64encode(header_json)
        payload_b64 == urlsafe_b64encode(payload_json(payload_obj))
        signing_input == header_b64 \o << 46 >> \o payload_b64
        key == Utf8(c.MERCHANT_LOGIN) \o << 58 >> \o Utf8(c.PASSWORD1)
        signature_b64 == rstrip_pad(urlsafe_b64encode(hmac_md5(key, signing_input)))
    IN  rstrip_pad(header_b64) \o << 46 >> \o rstrip_pad(payload_b64) \o << 46 >> \o signature_b64

\* build_invoice_jwt from header_json to token: header.payload.signature
jwt_token(c, payload_obj) ==
    LET header_b64 == rstrip_pad(urlsafe_b64encode(header_json))
        payload_b64 == rstrip_pad(urlsafe_b64encode(payload_json(payload_obj)))
        signing_input == header_b64 \o << 46 >> \o payload_b64
        key == Utf8(c.MERCHANT_LOGIN) \o << 58 >> \o Utf8(c.PASSWORD1)
        signature_b64 == rstrip_pad(urlsafe_b64encode(hmac_md5(key, signing_input)))
    IN  signing_input \o << 46 >> \o signature_b64

----------------------------------------------------------------------------
(* OpStateExt: invoice.py, and the status wording of check_online_status *)

MaxCode == 100    \* largest numeric state code a reply may carry

\* the text of <State><Code>: a number, a word, padded, blank, or empty
CodeTexts ==
    { ToString(n) : n \in 0..MaxCode } \cup { "abc", " 100 ", " ", "" }

\* str.strip on the texts above
Strip(text) ==
    CASE text = " 100 " -> "100"
      [] text = " " -> ""
      [] OTHER -> text

\* what the gateway may do with the GET: no response, an HTTP error, a body
\* that is not well-formed XML, or a document with or without State/Code
\* (code is <<>> without the element, else its text)
OpStateReplies ==
    { [get |-> g, ok |-> FALSE, xml |-> "none", code |-> <<>>] :
        g \in { "timeout", "connection error" } }
    \cup
    { [get |-> "response", ok |-> FALSE, xml |-> "none", code |-> <<>>] }
    \cup
    { [get |-> "response", ok |-> TRUE, xml |-> "malformed", code |-> <<>>] }
    \cup
    { [get |-> "response", ok |-> TRUE, xml |-> "document", code |-> c] :
        c \in { <<>> } \cup { << t >> : t \in CodeTexts } }

\* parse_opstate_xml: StateCode is set only for an element with text, stripped
parse_opstate_xml(reply) ==
    [ok |-> reply.xml = "document",
     StateCode |-> IF reply.code # <<>> /\ reply.code[1] # ""
                   THEN << Strip(reply.code[1]) >>
                   ELSE <<>>]

\* get_payment_state (get_payment_state_by_inv_id in desktop_app.py)
get_payment_state(c, inv_id, reply) ==
    LET sent == << "GET OpStateExt" >>
        info == parse_opstate_xml(reply)
    IN  IF c.MERCHANT_LOGIN = "" \/ c.PASSWORD2 = ""
        THEN Raised("RuntimeError", << "MerchantLogin / Password2 not set" >>, <<>>)
        ELSE IF reply.get # "response"
        THEN Raised("RuntimeError", << "cannot reach OpStateExt: ", reply.get >>, sent)
        ELSE IF ~reply.ok
        THEN Raised("RuntimeError", << "OpStateExt answered with an HTTP error" >>, sent)
        ELSE IF ~info.ok
        THEN Raised("RuntimeError", << "cannot parse the OpStateExt XML" >>, sent)
        ELSE [Returned(NULL, NULL, sent) EXCEPT !.StateCode = info.StateCode]

\* a wording that looks the code up without the  or ""  and without a default
online_status_text_no_default(info) ==
    IF info.exc # "none" \/ info.StateCode = <<>>
    THEN "status query error"
    ELSE IF StateText(info.StateCode[1]) = "status undetermined"
    THEN "status query error"
    ELSE StateText(info.StateCode[1])

\* check_online_status, the wording of one row that has an invoice id:
\* state_map.get(state_code or "", default), or the error of the query
online_status_text(info) ==
    IF info.exc # "none"
    THEN "status query error"
    ELSE StateText(IF info.StateCode = <<>> THEN "" ELSE info.StateCode[1])

----------------------------------------------------------------------------
(* The two gateway calls on their own: one call per behaviour, its inputs  *)
(* drawn at the start                                                      *)

NoResult == Returned(NULL, NULL, <<>>)

NoCall == [op |-> "none", phase |-> "done"]

Pending(op, reply, writable) ==
    [op |-> op, phase |-> "pending", reply |-> reply, writable |-> writable,
     result |-> NoResult, steps |-> <<>>, text |-> ""]

PendingCalls ==
    { Pending("create_invoice_and_get_link", r, w) : r \in InvoiceReplies, w \in BOOLEAN }
    \cup
    { Pending("get_payment_state", r, TRUE) : r \in OpStateReplies }

\* the arguments generate_payment passes for the first form of FormStates
SampleDescription == << "order ", "A", "1" >>
SampleAmount == 250
SampleName == << "payment of order ", "A", "1" >>
SampleInvId == 7

CreateInvoice ==
    /\ call.op = "create_invoice_and_get_link"
    /\ call.phase = "pending"
    /\ call' = [call EXCEPT
                  !.phase = "done",
                  !.result = create_invoice_and_get_link(creds, SampleDescription, SampleAmount,
                                                         SampleName, call.reply, call.writable)]
    /\ UNCHANGED <<payments, lpc, lorder, ldata, lresp, lescaped, lfail, alerts, gui, creds, schema, config>>

\* one status query of check_online_status and the wording of its row
GetPaymentState ==
    /\ call.op = "get_payment_state"
    /\ call.phase = "pending"
    /\ LET info == get_payment_state(creds, SampleInvId, call.reply)
       IN  call' = [call EXCEPT !.phase = "done",
                                !.result = info,
                                !.text = online_status_text(info)]
    /\ UNCHANGED <<payments, lpc, lorder, ldata, lresp, lescaped, lfail, alerts, gui, creds, schema, config>>

\* descriptions and item names, as UTF-8:  A1,  t"a,  a\b,  and a word of
\* three Cyrillic letters
TokenTexts ==
    { << 65, 49 >>, << 116, 34, 97 >>, << 97, 92, 98 >>, << 209, 135, 208, 176, 208, 185 >> }

\* whole amounts of one to MaxAmount + 1 digits, and those of FormStates
TokenAmounts == { 10 ^ k : k \in 0..MaxAmount } \cup { 100, 250 }

PendingTokens ==
    { [op |-> "build_invoice_jwt", phase |-> "pending", description |-> d, amount |-> a,
       item_name |-> n, raised |-> FALSE, payload_obj |-> <<>>, token |-> <<>>] :
      d \in TokenTexts, a \in TokenAmounts, n \in TokenTexts }

\* one call of build_invoice_jwt: it raises, or returns the token and the
\* payload it signed
BuildInvoiceJwt ==
    /\ call.op = "build_invoice_jwt"
    /\ call.phase = "pending"
    /\ \E jwt \in { build_invoice_jwt(creds, call.description, call.amount, call.item_name) } :
           call' = [call EXCEPT !.phase = "done",
                                !.raised = ~jwt.ok,
                                !.payload_obj = IF jwt.ok THEN << jwt >> ELSE <<>>,
                                !.token = IF jwt.ok THEN jwt_token(creds, jwt) ELSE <<>>]
    /\ UNCHANGED <<payments, lpc, lorder, ldata, lresp, lescaped, lfail, alerts, gui, creds, schema, config>>

----------------------------------------------------------------------------
(* generate_payment step by step: gui.py 527-588 *)

\* the integer SQLite stores for an invoice id of the reply
LedgerId(v) ==
    IF v = NULL THEN NoInvoice
    ELSE << CASE v[1] = "7" -> 7 [] v[1] = "8" -> 8 [] OTHER -> 9 >>

\* what becomes of the QR message: the image cannot be built, no token or
\* chat id is configured, the photo is sent, Telegram answers with an error,
\* or requests.post raises
QrOutcomes == { "qr build error", "not configured", "sent", "http error", "transport error" }

Step(name, ok) == [call |-> name, ok |-> ok]

\* build_qr_image_bytes and send_qr_to_telegram inside the try of
\* generate_payment: the calls made, and whether each did its work
SendQr(qr) ==
    IF qr = "qr build error"
    THEN << Step("build_qr_image_bytes", FALSE) >>
    ELSE << Step("build_qr_image_bytes", TRUE), Step("send_qr_to_telegram", qr = "sent") >>

Pressed(rows, steps, text, result) ==
    [rows |-> rows, steps |-> steps, text |-> text, result |-> result]

\* a generate_payment that sends the QR as soon as it has the link
generate_payment_notify_first(rows, c, form, env) ==
    LET order_number == form.order
        amt == _get_current_amount(form)
        services == ServicesOf(form)
        inv == create_invoice_and_get_link(c, << "order " >> \o order_number, amt.amount,
                                           services, env.reply, env.writable)
        created == << Step("create_invoice_and_get_link", inv.exc = "none") >>
    IN  IF order_number = <<>> THEN Pressed(rows, <<>>, "warning: order number", NoResult)
        ELSE IF ~amt.ok THEN Pressed(rows, <<>>, "error: amount", NoResult)
        ELSE IF inv.exc # "none" THEN Pressed(rows, created, "error: invoice", inv)
        ELSE IF env.dbFail
        THEN Pressed(rows, created \o SendQr(env.qr) \o << Step("insert_payment", FALSE) >>,
                     "error: database", inv)
        ELSE Pressed(insert_payment(rows, env.now, user_chat_id, <<>>, order_number, services,
                                    amt.amount, inv.link, "created", LedgerId(inv.invoice_id)),
                     created \o SendQr(env.qr) \o << Step("insert_payment", TRUE) >>,
                     "created", inv)

\* a generate_payment that takes the row back when the QR was not delivered
generate_payment_rollback(rows, c, form, env) ==
    LET order_number == form.order
        amt == _get_current_amount(form)
        services == ServicesOf(form)
        inv == create_invoice_and_get_link(c, << "order " >> \o order_number, amt.amount,
                                           services, env.reply, env.writable)
        created == << Step("create_invoice_and_get_link", inv.exc = "none") >>
    IN  IF order_number = <<>> THEN Pressed(rows, <<>>, "warning: order number", NoResult)
        ELSE IF ~amt.ok THEN Pressed(rows, <<>>, "error: amount", NoResult)
        ELSE IF inv.exc # "none" THEN Pressed(rows, created, "error: invoice", inv)
        ELSE IF env.dbFail
        THEN Pressed(rows, created \o << Step("insert_payment", FALSE) >>, "error: database", inv)
        ELSE IF env.qr # "sent"
        THEN Pressed(rows, created \o << Step("insert_payment", TRUE) >> \o SendQr(env.qr),
                     "error: telegram", inv)
        ELSE Pressed(insert_payment(rows, env.now, user_chat_id, <<>>, order_number, services,
                                    amt.amount, inv.link, "created", LedgerId(inv.invoice_id)),
                     created \o << Step("insert_payment", TRUE) >> \o SendQr(env.qr),
                     "created", inv)

\* App.generate_payment: the ledger after the press, the calls made in
\* order, the dialog shown and what create_invoice_and_get_link produced.
\* env is what the surroundings do: the gateway's reply, whether the debug
\* log is writable, whether the INSERT fails, the clock, the fate of the QR
generate_payment(rows, c, form, env) ==
    LET order_number == form.order
        amt == _get_current_amount(form)
        services == ServicesOf(form)
        inv == create_invoice_and_get_link(c, << "order " >> \o order_number, amt.amount,
                                           services, env.reply, env.writable)
        created == << Step("create_invoice_and_get_link", inv.exc = "none") >>
    IN  IF order_number = <<>> THEN Pressed(rows, <<>>, "warning: order number", NoResult)
        ELSE IF ~amt.ok THEN Pressed(rows, <<>>, "error: amount", NoResult)
        ELSE IF inv.exc # "none" THEN Pressed(rows, created, "error: invoice", inv)
        ELSE IF env.dbFail
        THEN Pressed(rows, created \o << Step("insert_payment", FALSE) >>, "error: database", inv)
        ELSE Pressed(insert_payment(rows, env.now, user_chat_id, <<>>, order_number, services,
                                    amt.amount, inv.link, "created", LedgerId(inv.invoice_id)),
                     created \o << Step("insert_payment", TRUE) >> \o SendQr(env.qr),
                     "created", inv)

\* the replies a traced press may get: no response, not JSON, not an object,
\* a refusal with message and link, and successes with and without a link
\* and an invoice id
PressReplies ==
    { r \in InvoiceReplies :
        r.json = "object" =>
          /\ r.isSuccess # "absent"
          /\ \A k \in DataKeys : r.data[k] # <<>>
          /\ \A k \in DataKeys \ { "message", "invoiceUrl", "invId" } : r.data[k] = NULL
          /\ r.isSuccess = "true" => r.data["message"] = NULL
          /\ r.isSuccess = "false" =>
                /\ r.data["message"] # NULL
                /\ r.data["invoiceUrl"] # NULL
                /\ r.data["invId"] = NULL }

\* one press of "generate" waiting to happen: the form and the surroundings
PendingPresses ==
    { [op |-> "generate_payment", phase |-> "pending", form |-> f, reply |-> r,
       writable |-> TRUE, dbFail |-> d, qr |-> q, now |-> 2,
       result |-> NoResult, steps |-> <<>>, text |-> ""] :
      f \in FormStates, r \in PressReplies, d \in BOOLEAN, q \in QrOutcomes }

\* the status queries a traced run may make
PendingQueries ==
    { Pending("get_payment_state", r, TRUE) :
        r \in { q \in OpStateReplies : q.code \in { <<>>, << "100" >> } } }

\* the ledger a traced run starts from: empty, or with an earlier attempt
EarlierLedgers ==
    { <<>>,
      insert_payment(<<>>, 1, user_chat_id, <<>>, << "A", "1" >>,
                     << "payment of order ", "A", "1" >>, 250, << "u", "1" >>, "created", << 7 >>) }

\* the forms of FormStates, and the form with an order number, an empty
\* amount field and no items (base_total is 0.0)
AllFormStates ==
    FormStates \cup
        { [order |-> <<"b">>, services |-> <<>>, amount |-> "", base_total |-> 0] }

\* one press on any of these forms
AllPendingPresses ==
    { [op |-> "generate_payment", phase |-> "pending", form |-> f, reply |-> r,
       writable |-> TRUE, dbFail |-> d, qr |-> q, now |-> 9,
       result |-> NoResult, steps |-> <<>>, text |-> ""] :
      f \in AllFormStates, r \in PressReplies, d \in BOOLEAN, q \in { "sent", "not configured" } }

GeneratePaymentTraced ==
    /\ call.op = "generate_payment"
    /\ call.phase = "pending"
    /\ \E out \in { generate_payment(payments, creds, call.form, call) } :
           /\ payments' = out.rows
           /\ call' = [call EXCEPT !.phase = "done", !.result = out.result,
                                   !.steps = out.steps, !.text = out.text]
           /\ gui' = Shown("generate_payment", << out.text >>, <<>>)
           /\ IF out.text = "created"
              THEN alerts' = [alerts EXCEPT ![call.form.order] = 0]
              ELSE UNCHANGED alerts
    /\ UNCHANGED <<lpc, lorder, ldata, lresp, lescaped, lfail, creds, schema, config>>

----------------------------------------------------------------------------
(* check_online_status attempt by attempt: gui.py 626-730,                 *)
(* desktop_app.py 1302-1401                                                *)

\* the two files that define App.check_online_status.  Both call
\* get_payment_state_by_inv_id: desktop_app.py defines it (552-593), gui.py
\* neither defines nor imports it (it imports get_payment_state, 27-31)
Modules == { "gui.py", "desktop_app.py" }

\* what a status query of a traced check may get
CheckReplies ==
    { r \in OpStateReplies : r.get = "timeout" \/ r.code \in { << "5" >>, << "100" >> } }

Checked(attempts, queried, lines, text) ==
    [attempts |-> attempts, queried |-> queried, lines |-> lines, text |-> text]

\* App.check_online_status: the ids of the attempts it looks at, whether a
\* status query went out for each, the status it reports for each, and the
\* dialog.  env.module is the file the method is taken from, env.replies
\* what the gateway does with the query for each attempt, env.dbFail whether
\* the SELECT raises.  In gui.py the call raises NameError before any
\* request, and the  except Exception  of the loop reports it as a failed query
check_online_status(rows, c, order_number, env) ==
    LET recent == get_recent_payments_for_order(rows, order_number, RecentLimit)
        bound == env.module = "desktop_app.py"
        HasId(i) == recent[i].invoice_id # NoInvoice
        info(i) == get_payment_state(c, recent[i].invoice_id[1], env.replies[i])
    IN  IF order_number = <<>> THEN Checked(<<>>, <<>>, <<>>, "warning: order number")
        ELSE IF env.dbFail THEN Checked(<<>>, <<>>, <<>>, "error: database")
        ELSE IF recent = <<>> THEN Checked(<<>>, <<>>, <<>>, "not found")
        ELSE Checked(Ids(recent),
                     [i \in 1..Len(recent) |-> HasId(i) /\ bound /\ info(i).effects # <<>>],
                     [i \in 1..Len(recent) |->
                         IF ~HasId(i) THEN "no online status"
                         ELSE IF ~bound THEN "status query error"
                         ELSE online_status_text(info(i))],
                     "report")

\* one more attempt of order A1, with or without a stored invoice id
Attempt(rows, invoice_id) ==
    insert_payment(rows, Len(rows) + 1, user_chat_id, <<>>, << "A", "1" >>,
                   << "payment of order ", "A", "1" >>, 250, << "u", "1" >>, "created", invoice_id)

\* the ledgers a traced check starts from: no attempt, one, three and four
\* attempts of the order, some of them without an invoice id
CheckedLedgers ==
    { <<>>,
      Attempt(<<>>, << 7 >>),
      Attempt(Attempt(Attempt(<<>>, << 7 >>), NoInvoice), << 8 >>),
      Attempt(Attempt(Attempt(Attempt(<<>>, << 7 >>), << 8 >>), NoInvoice), << 9 >>),
      Attempt(Attempt(Attempt(Attempt(<<>>, << 7 >>), << 8 >>), << 9 >>), << 7 >>) }

PendingChecks ==
    { [op |-> "check_online_status", phase |-> "pending", order |-> o, module |-> m,
       dbFail |-> d, replies |-> r,
       attempts |-> <<>>, queried |-> <<>>, lines |-> <<>>, text |-> ""] :
      o \in { <<>>, << "A", "1" >>, << "b" >> }, m \in Modules, d \in BOOLEAN,
      r \in [1..RecentLimit -> CheckReplies] }

CheckOnlineStatusTraced ==
    /\ call.op = "check_online_status"
    /\ call.phase = "pending"
    /\ \E out \in { check_online_status(payments, creds, call.order, call) } :
           /\ call' = [call EXCEPT !.phase = "done", !.attempts = out.attempts,
                                   !.queried = out.queried, !.lines = out.lines,
                                   !.text = out.text]
           /\ gui' = Shown("check_online_status", << out.text >>, <<>>)
    /\ UNCHANGED <<payments, lpc, lorder, ldata, lresp, lescaped, lfail, alerts, creds, schema, config>>

----------------------------------------------------------------------------
(* Configuration: config.py, and the names invoice.py and                  *)
(* telegram_utils.py import from it.  A number of the configuration is     *)
(* written as its text: the settings form hands over what was typed.       *)

MaxSaves == 2     \* presses of "save" on the settings form

\* a configuration dict, with the keys the invoice, notifier and listener use
ConfigDict(merchant_login, password1, password2, telegram_token, admin_id, chat_id, result_port) ==
    [merchant_login |-> merchant_login, password1 |-> password1, password2 |-> password2,
     telegram_token |-> telegram_token, admin_id |-> admin_id, user_chat_id |-> chat_id,
     result_port |-> result_port]

get_default_config == ConfigDict("", "", "", "", "0", "0", "8085")

\* APP_CONFIG = {} : every get finds nothing
EmptyDict == ConfigDict("", "", "", "", "", "", "")

\* int(value): defined on the texts of integers, ValueError on any other
IntValue == [t \in { "0", "7", "42", "8085" } |-> CASE t = "0" -> 0 [] t = "7" -> 7 [] t = "42" -> 42 [] OTHER -> 8085]
IsInt(text) == text \in DOMAIN IntValue

\* value or default
Or(text, default) == IF text = "" THEN default ELSE text

\* the memory of the process before anything was loaded: the defaults of
\* config.py 6-19 and an import of the other modules still to come
Globals(module, file) ==
    [module |-> module, file |-> file,
     MERCHANT_LOGIN |-> "", PASSWORD1 |-> "", PASSWORD2 |-> "", BOT_TOKEN |-> "",
     ADMIN_ID |-> 0, USER_CHAT_ID |-> 0, RESULT_PORT |-> 8085, APP_CONFIG |-> EmptyDict,
     telegram |-> EmptyDict, imported |-> FALSE, loaded |-> FALSE, saves |-> 0,
     op |-> "none", arg |-> EmptyDict, raised |-> "none", dialog |-> "none"]

\* config.json: absent, not JSON, or a stored dict
NoFile == [kind |-> "none", cfg |-> EmptyDict]
Garbage == [kind |-> "garbage", cfg |-> EmptyDict]
Stored(cfg) == [kind |-> "json", cfg |-> cfg]

\* no configuration has been loaded or saved
NoConfig == Globals("desktop_app.py", NoFile)

\* the assignments in their order; int() of a text that is no integer
\* raises and leaves the later names as they were
apply_config_to_globals(g, cfg) ==
    LET strings == [g EXCEPT !.MERCHANT_LOGIN = cfg.merchant_login,
                             !.PASSWORD1 = cfg.password1,
                             !.PASSWORD2 = cfg.password2,
                             !.BOT_TOKEN = cfg.telegram_token]
        admin_id == Or(cfg.admin_id, "0")
        chat_id == Or(cfg.user_chat_id, "0")
        result_port == Or(cfg.result_port, "8085")
    IN  IF ~IsInt(admin_id) THEN [strings EXCEPT !.raised = "ValueError"]
        ELSE IF ~IsInt(chat_id)
        THEN [strings EXCEPT !.ADMIN_ID = IntValue[admin_id], !.raised = "ValueError"]
        ELSE IF ~IsInt(result_port)
        THEN [strings EXCEPT !.ADMIN_ID = IntValue[admin_id],
                             !.USER_CHAT_ID = IntValue[chat_id],
                             !.raised = "ValueError"]
        ELSE [strings EXCEPT !.ADMIN_ID = IntValue[admin_id],
                             !.USER_CHAT_ID = IntValue[chat_id],
                             !.RESULT_PORT = IntValue[result_port],
                             !.APP_CONFIG = cfg,
                             !.raised = "none"]

\* the type coercion of load_or_init_config: an integer, or 0
Coerced(text) == IF text # "" /\ IsInt(text) THEN text ELSE "0"

load_or_init_config(g) ==
    LET read == IF g.file.kind = "json" THEN g.file.cfg ELSE get_default_config
        cfg == [read EXCEPT !.admin_id = Coerced(read.admin_id),
                            !.user_chat_id = Coerced(read.user_chat_id),
                            !.result_port = Coerced(read.result_port)]
    IN  apply_config_to_globals(g, cfg)

\* the file is written first, the names are assigned after it
save_config(g, cfg, writable) ==
    IF ~writable THEN [g EXCEPT !.raised = "OSError"]
    ELSE apply_config_to_globals([g EXCEPT !.file = Stored(cfg)], cfg)

\* gui.py 1035-1054: the dict of the form, save_config, then the dialog
save_settings(g, cfg, writable) ==
    LET saved == save_config(g, cfg, writable)
    IN  [saved EXCEPT !.dialog = IF saved.raised = "none" THEN "saved" ELSE "none"]

\* what the settings form can hold: one complete configuration, and the same
\* with one field left empty or mistyped
FormBase == ConfigDict("shop", "p1", "p2", "tok", "42", "7", "8085")
FormEdits ==
    { << "merchant_login", "" >>, << "password1", "" >>, << "telegram_token", "" >>,
      << "admin_id", "" >>, << "admin_id", "4x" >>, << "user_chat_id", "7x" >>,
      << "result_port", "" >>, << "result_port", "80x" >> }
FormConfigs == { FormBase } \cup { [FormBase EXCEPT ![e[1]] = e[2]] : e \in FormEdits }

StartFiles == { NoFile, Garbage } \cup { Stored(cfg) : cfg \in FormConfigs }

\* telegram_utils.py 8-14: the token and chat id of the APP_CONFIG it holds;
\* nothing is sent when either is missing (the 0 of the defaults is "0" here)
send_qr_to_telegram(app_config) ==
    IF app_config.telegram_token = "" \/ app_config.user_chat_id \in { "", "0" }
    THEN [sent |-> FALSE, token |-> "", chat_id |-> ""]
    ELSE [sent |-> TRUE, token |-> app_config.telegram_token, chat_id |-> app_config.user_chat_id]

\* the names a module holds: in desktop_app.py they are the globals that
\* apply_config_to_globals assigns; invoice.py and telegram_utils.py hold
\* what "from .config import" bound when they were imported
InvoiceNames(g) == [MERCHANT_LOGIN |-> g.MERCHANT_LOGIN, PASSWORD1 |-> g.PASSWORD1, PASSWORD2 |-> g.PASSWORD2]

\* the import of invoice.py and telegram_utils.py (with gui.py)
ImportModules ==
    /\ ~config.imported
    /\ config' = [config EXCEPT !.imported = TRUE, !.telegram = config.APP_CONFIG]
    /\ creds' = InvoiceNames(config)
    /\ UNCHANGED <<payments, lpc, lorder, ldata, lresp, lescaped, lfail, alerts, gui, call, schema>>

\* the one load at the start of the program
LoadConfig ==
    /\ ~config.loaded
    /\ config.saves = 0
    /\ \E g \in { load_or_init_config([config EXCEPT !.loaded = TRUE, !.op = "load_or_init_config", !.dialog = "none"]) } :
          /\ config' = IF g.module = "desktop_app.py" THEN [g EXCEPT !.telegram = g.APP_CONFIG] ELSE g
          /\ creds' = IF g.module = "desktop_app.py" THEN InvoiceNames(g) ELSE creds
    /\ UNCHANGED <<payments, lpc, lorder, ldata, lresp, lescaped, lfail, alerts, gui, call, schema>>

\* "save" on the settings form
SaveSettings ==
    /\ config.imported
    /\ config.loaded
    /\ config.saves < MaxSaves
    /\ \E cfg \in FormConfigs, writable \in BOOLEAN :
        \E g \in { save_settings([config EXCEPT !.saves = @ + 1, !.op = "save_settings", !.arg = cfg], cfg, writable) } :
          /\ config' = IF g.module = "desktop_app.py" THEN [g EXCEPT !.telegram = g.APP_CONFIG] ELSE g
          /\ creds' = IF g.module = "desktop_app.py" THEN InvoiceNames(g) ELSE creds
    /\ UNCHANGED <<payments, lpc, lorder, ldata, lresp, lescaped, lfail, alerts, gui, call, schema>>

----------------------------------------------------------------------------

Init ==
    /\ payments = <<>>
    /\ lpc = "idle"
    /\ lorder = NULL
    /\ ldata = NoFields
    /\ lresp = <<>>
    /\ lescaped = FALSE
    /\ lfail = "none"
    /\ alerts = [o \in OrderNumbers |-> 0]
    /\ gui = Shown("start", <<"">>, <<>>)
    /\ creds = Configured
    /\ call = NoCall
    /\ schema = Table(CurrentColumns)
    /\ config = NoConfig

Next ==
    \/ GeneratePayment
    \/ CheckPaymentStatus
    \/ CheckOnlineStatus
    \/ RefreshPayments
    \/ ExportPaymentsCsv
    \/ ResultRequest
    \/ ResultNotify

Spec == Init /\ [][Next]_vars

\* the gateway calls on their own
InitInvoice ==
    /\ payments = <<>>
    /\ lpc = "idle"
    /\ lorder = NULL
    /\ ldata = NoFields
    /\ lresp = <<>>
    /\ lescaped = FALSE
    /\ lfail = "none"
    /\ alerts = [o \in OrderNumbers |-> 0]
    /\ gui = Shown("start", <<"">>, <<>>)
    /\ creds \in CredSets
    /\ call \in PendingCalls \cup PendingTokens
    /\ schema = Table(CurrentColumns)
    /\ config = NoConfig

NextInvoice ==
    \/ CreateInvoice
    \/ GetPaymentState
    \/ BuildInvoiceJwt

SpecInvoice == InitInvoice /\ [][NextInvoice]_vars

\* one traced press or status query, with the listener running beside it
InitTraced ==
    /\ payments \in EarlierLedgers
    /\ lpc = "idle"
    /\ lorder = NULL
    /\ ldata = NoFields
    /\ lresp = <<>>
    /\ lescaped = FALSE
    /\ lfail = "none"
    /\ alerts = [o \in OrderNumbers |-> 0]
    /\ gui = Shown("start", <<"">>, <<>>)
    /\ creds \in CredSets
    /\ call \in PendingPresses \cup PendingQueries
    /\ schema = Table(CurrentColumns)
    /\ config = NoConfig

NextTraced ==
    \/ GeneratePaymentTraced
    \/ GetPaymentState
    \/ ResultRequestTraced
    \/ ResultNotifyTraced

SpecTraced == InitTraced /\ [][NextTraced]_vars

\* the program starts on a store that is empty, old or current
InitStore ==
    /\ \E kind \in { "empty", "old", "current" } :
          /\ call = PendingInitDb(kind)
          /\ schema = CASE kind = "empty" -> NoTable
                         [] kind = "old" -> Table(OldColumns)
                         [] OTHER -> Table(CurrentColumns)
          /\ payments \in IF kind = "empty" THEN { <<>> }
                           ELSE IF kind = "old" THEN StoredLedgers(OldColumns)
                           ELSE StoredLedgers(CurrentColumns)
    /\ lpc = "idle"
    /\ lorder = NULL
    /\ ldata = NoFields
    /\ lresp = <<>>
    /\ lescaped = FALSE
    /\ lfail = "none"
    /\ alerts = [o \in OrderNumbers |-> 0]
    /\ gui = Shown("start", <<"">>, <<>>)
    /\ creds = Configured
    /\ config = NoConfig

NextStore ==
    \/ InitDb

SpecStore == InitStore /\ [][NextStore]_vars

\* one traced operator action on a ledger that is already there
InitOperator ==
    /\ payments \in CheckedLedgers
    /\ lpc = "idle"
    /\ lorder = NULL
    /\ ldata = NoFields
    /\ lresp = <<>>
    /\ lescaped = FALSE
    /\ lfail = "none"
    /\ alerts = [o \in OrderNumbers |-> 0]
    /\ gui = Shown("start", <<"">>, <<>>)
    /\ creds = Configured
    /\ call \in PendingChecks \cup AllPendingPresses
    /\ schema = Table(CurrentColumns)
    /\ config = NoConfig

NextOperator ==
    \/ CheckOnlineStatusTraced
    \/ GeneratePaymentTraced

SpecOperator == InitOperator /\ [][NextOperator]_vars

\* the start of the program and the settings form
InitConfig ==
    /\ payments = <<>>
    /\ lpc = "idle"
    /\ lorder = NULL
    /\ ldata = NoFields
    /\ lresp = <<>>
    /\ lescaped = FALSE
    /\ lfail = "none"
    /\ alerts = [o \in OrderNumbers |-> 0]
    /\ gui = Shown("start", <<"">>, <<>>)
    /\ creds = InvoiceNames(NoConfig)
    /\ call = NoCall
    /\ schema = Table(CurrentColumns)
    /\ config \in { Globals(m, f) : m \in Modules, f \in StartFiles }

NextConfig ==
    \/ ImportModules
    \/ LoadConfig
    \/ SaveSettings

SpecConfig == InitConfig /\ [][NextConfig]_vars

----------------------------------------------------------------------------
(* Properties *)

RowsOf(rows, order_number) ==
    { i \in 1..Len(rows) : rows[i].order_number = order_number }

\* the row at position i of the ledger before a step is still there after it
\* with the same status
KeepsStatus(i) ==
    /\ i <= Len(payments')
    /\ payments'[i].id = payments[i].id
    /\ payments'[i].status = payments[i].status

OperatorAction ==
    \/ GeneratePayment
    \/ CheckPaymentStatus
    \/ CheckOnlineStatus
    \/ RefreshPayments
    \/ ExportPaymentsCsv

\* C1: a row whose status is "paid" never has status "created" in a later
\* state, whatever step is taken (insert, confirmation, operator action).
C1_PaidNeverReverts ==
    [][\/ payments' = payments
       \/ \A i \in 1..Len(payments) :
             payments[i].status = "paid" =>
                 \A j \in 1..Len(payments') :
                     payments'[j].id = payments[i].id => payments'[j].status = "paid"]_vars

\* an order was paid, confirmed a second time, and its row is still paid
C1_Witness ==
    \E o \in OrderNumbers :
        /\ alerts[o] >= 2
        /\ RowsOf(payments, o) # {}
        /\ \A i \in RowsOf(payments, o) : payments[i].status = "paid"

\* C2: a second confirmation of an order that is already paid triggers no
\* further admin notification: at most one notify_admin_paid call per order
\* number while no new attempt is inserted for it.
C2_AtMostOneAlert ==
    \A o \in OrderNumbers : alerts[o] <= 1

\* C3: update_payment_status(order, "paid") applied twice gives the same
\* ledger as applied once, and the second call completes with the same
\* row count as the first.
C3_MarkPaidIdempotent ==
    \A o \in OrderNumbers \cup { <<"Z">> } :
        LET once == update_payment_status(payments, o, "paid")
            twice == update_payment_status(once.rows, o, "paid")
        IN  /\ twice.rows = once.rows
            /\ twice.count = once.count

\* the listener has just run update_payment_status a second time on an
\* order with two attempts, and both are paid
C3_Witness ==
    /\ lpc = "notify"
    /\ lorder \in OrderNumbers
    /\ alerts[lorder] >= 1
    /\ Cardinality(RowsOf(payments, lorder)) >= 2
    /\ \A i \in RowsOf(payments, lorder) : payments[i].status = "paid"

IsMostRecent(rows, i) ==
    \A j \in 1..Len(rows) :
        rows[j].order_number = rows[i].order_number => rows[j].id <= rows[i].id

\* C4: a step changes the status of a row only if that row is the most
\* recent attempt of its order number.
C4_OnlyMostRecentMarked ==
    [][\A i \in 1..Len(payments) :
          (i <= Len(payments') /\ payments'[i].status # payments[i].status)
              => IsMostRecent(payments, i)]_vars

\* C5: a handled request has exactly one response, 200 "OK" or 500 with the
\* error; it is 500 when request.post() or update_payment_status raised and
\* 200 otherwise, and no exception leaves the handler.
C5_OneResponse ==
    /\ ~lescaped
    /\ lpc = "notify" => lresp = <<>>
    /\ lpc = "done" =>
        /\ Len(lresp) = 1
        /\ lresp[1] \in { OK200, Error500 }
        /\ lfail \in { "request.post", "update_payment_status" } => lresp[1] = Error500
        /\ lfail \in { "none", "get_last_payment", "sendMessage" } => lresp[1] = OK200

\* the ledger update failed and the request was answered with 500
C5_Witness ==
    /\ lpc = "done"
    /\ lfail = "update_payment_status"
    /\ lresp = <<Error500>>

\* C6: an operator action leaves the status of every existing row as it
\* was, also when the status query reports state code 100: a step that
\* changes the status of a row is not a step of an operator action.
C6_OperatorKeepsStatus ==
    [][(\E i \in 1..Len(payments) : ~KeepsStatus(i)) => ~OperatorAction]_vars

\* the online check reported "paid" while every row is still "created"
C6_Witness ==
    /\ gui.op = "check_online_status"
    /\ \E k \in 1..Len(gui.result) : gui.result[k] = "paid"
    /\ payments # <<>>
    /\ \A i \in 1..Len(payments) : payments[i].status = "created"

\* C7: a generate_payment that reaches the insert appends exactly one row,
\* with status "created" and an id above every id already in the ledger,
\* and leaves the rows that were there unchanged.
C7_InsertAppendsOne ==
    [][(gui'.result = <<"created">> /\ GeneratePayment) =>
          /\ Len(payments') = Len(payments) + 1
          /\ SubSeq(payments', 1, Len(payments)) = payments
          /\ payments'[Len(payments')].status = "created"
          /\ \A i \in 1..Len(payments) : payments'[Len(payments')].id > payments[i].id]_vars

\* a second attempt was just inserted behind a paid one
C7_Witness ==
    /\ gui.op = "generate_payment"
    /\ gui.result = <<"created">>
    /\ Len(payments) >= 2
    /\ payments[1].status = "paid"
    /\ payments[Len(payments)].status = "created"

SameAttempt(r, q) ==
    /\ q.id = r.id
    /\ q.order_number = r.order_number
    /\ q.amount = r.amount
    /\ q.services = r.services
    /\ q.payment_url = r.payment_url
    /\ q.invoice_id = r.invoice_id
    /\ q.created_at = r.created_at

\* C8: no step removes a row or changes its order_number, amount, services,
\* payment_url, invoice_id or created_at.
C8_RowsKept ==
    [][\/ payments' = payments
       \/ \A i \in 1..Len(payments) :
             \E j \in 1..Len(payments') : SameAttempt(payments[i], payments'[j])]_vars

\* a row that has been marked paid and has seen a later insert
C8_Witness ==
    \E i \in 1..Len(payments) :
        /\ payments[i].status = "paid"
        /\ payments[i].services = <<"tea">>
        /\ payments[i].amount = 100
        /\ i < Len(payments)

\* C9: get_recent_payments_for_order(order, limit) returns at most limit
\* rows, all of that order number, in strictly descending id order, and
\* every matching row it leaves out is older than all it returns.
C9_MostRecent ==
    \A o \in OrderNumbers \cup { <<"Z">> }, limit \in 0..MaxLimit :
        LET r == get_recent_payments_for_order(payments, o, limit)
        IN  /\ Len(r) <= limit
            /\ \A k \in 1..Len(r) :
                  /\ r[k].order_number = o
                  /\ \E i \in 1..Len(payments) : payments[i].id = r[k].id
            /\ \A k \in 1..(Len(r) - 1) : r[k].id > r[k + 1].id
            /\ \A i \in RowsOf(payments, o) :
                  (\A k \in 1..Len(r) : r[k].id # payments[i].id) =>
                      /\ Len(r) = limit
                      /\ \A k \in 1..Len(r) : r[k].id > payments[i].id

\* the online check has listed two attempts of one order, and a limit of 1
\* leaves the older one out
C9_Witness ==
    /\ gui.op = "check_online_status"
    /\ Len(gui.result) >= 2
    /\ \E o \in OrderNumbers :
          /\ Cardinality(RowsOf(payments, o)) >= 2
          /\ Len(get_recent_payments_for_order(payments, o, 1)) = 1

\* f occurs in s as a literal substring
Contains(s, f) ==
    \E i \in 0..(Len(s) - Len(f)) :
        \A j \in 1..Len(f) : s[i + j] = f[j]

\* C10: get_payments(filter) returns, newest first, exactly the rows whose
\* order_number contains filter as a literal substring.
C10_LiteralSubstring ==
    \A f \in Filters :
        LET Has(r) == Contains(r.order_number, f)
        IN  get_payments(payments, f) = OrderByIdDesc(SelectSeq(payments, Has))

----------------------------------------------------------------------------
(* The gateway calls: SpecInvoice *)

CreateDone == call.op = "create_invoice_and_get_link" /\ call.phase = "done"
StateDone == call.op = "get_payment_state" /\ call.phase = "done"
Count(s, x) == Cardinality({ i \in 1..Len(s) : s[i] = x })

\* C14: every invoice creation that reaches the gateway call appends one
\* record to the debug log, whatever the outcome of the call (the log file
\* being writable).
C14_OneRecordPerAttempt ==
    (CreateDone /\ call.writable /\ Count(call.result.effects, "POST CreateInvoice") = 1)
        => Count(call.result.effects, "debug record") = 1

\* C15: for a JSON object whose isSuccess is false or missing the call fails
\* with an error that carries the provider's message verbatim, and returns
\* no link even when the object has one.
C15_ProviderErrorVerbatim ==
    (/\ CreateDone
     /\ build_invoice_jwt(creds, SampleDescription, SampleAmount, SampleName).ok
     /\ call.reply.json = "object"
     /\ call.reply.isSuccess # "true")
        => /\ call.result.exc = "RuntimeError"
           /\ call.result.link = NULL
           /\ call.result.invoice_id = NULL
           /\ Truthy(call.reply.data["message"])
                 => call.result.msg = ErrorPrefix \o call.reply.data["message"]

\* isSuccess is false, the object has a message and a link: the error ends
\* with the message and no link is returned
C15_Witness ==
    /\ CreateDone
    /\ call.reply.isSuccess = "false"
    /\ call.reply.data["message"] = ValueOf("message")
    /\ call.reply.data["invoiceUrl"] = ValueOf("invoiceUrl")
    /\ call.result.exc = "RuntimeError"
    /\ Contains(call.result.msg, ValueOf("message"))
    /\ call.result.link = NULL

\* positions in LinkKeys whose field is present and not empty in the reply
LinkPositions == { i \in 1..Len(LinkKeys) : Truthy(call.reply.data[LinkKeys[i]]) }

\* C16: on success the call returns the first present, non-empty link field
\* in the order invoiceUrl, InvoiceUrl, url, Url, paymentUrl, PaymentUrl; it
\* fails with the "no link" error exactly when no field is present with a
\* value; a reply without an invoice id does not fail and the id is returned
\* as absent.
C16_FirstLinkInOrder ==
    CreateDone =>
        /\ (call.result.exc = "RuntimeError" /\ call.result.msg = NoLinkText)
              <=> /\ build_invoice_jwt(creds, SampleDescription, SampleAmount, SampleName).ok
                  /\ call.reply.json = "object"
                  /\ call.reply.isSuccess = "true"
                  /\ LinkPositions = {}
        /\ call.result.exc = "none" =>
              /\ LinkPositions # {}
              /\ \E i \in LinkPositions :
                    /\ \A j \in LinkPositions : i <= j
                    /\ call.result.link = call.reply.data[LinkKeys[i]]
              /\ (\A k \in Range(IdKeys) : call.reply.data[k] = NULL)
                    => call.result.invoice_id = NULL

\* the first field is present but empty, a later one carries the link, the
\* reply has no invoice id: the later link is returned and the id is absent
C16_Witness ==
    /\ CreateDone
    /\ call.reply.data["invoiceUrl"] = <<>>
    /\ call.reply.data["Url"] = ValueOf("Url")
    /\ \A k \in Range(IdKeys) : call.reply.data[k] = NULL
    /\ call.result.exc = "none"
    /\ call.result.link = ValueOf("Url")
    /\ call.result.invoice_id = NULL

\* C17: every failure of the two gateway calls (timeout, connection error,
\* HTTP error on the status query, a body that is not JSON, JSON that is not
\* an object, XML that is not well-formed) leaves the call as the gateway
\* error, RuntimeError in the code; no exception of another type escapes.
C17_OnlyGatewayErrors ==
    (CreateDone \/ StateDone) => call.result.exc \in { "none", "RuntimeError" }

KnownStates ==
    { << "5", "awaiting payment" >>, << "10", "cancelled" >>, << "20", "funds held" >>,
      << "50", "funds credited" >>, << "60", "credit refused" >>,
      << "80", "execution suspended" >>, << "100", "paid" >> }

\* C18: the wording of a state code is total and fixed: 5, 10, 20, 50, 60,
\* 80 and 100 (as the parser hands them on, stripped) give the seven
\* statuses, every other code, an empty one and an absent one give "status
\* undetermined".
C18_StateMappingTotal ==
    (StateDone /\ call.result.exc = "none") =>
        LET code == IF call.reply.code = <<>> THEN "" ELSE Strip(call.reply.code[1])
        IN  /\ \A p \in KnownStates : code = p[1] => call.text = p[2]
            /\ (\A p \in KnownStates : code # p[1]) => call.text = "status undetermined"

\* a reply without State/Code has been worded as "status undetermined"
C18_Witness ==
    /\ StateDone
    /\ call.result.exc = "none"
    /\ call.reply.xml = "document"
    /\ call.reply.code = <<>>
    /\ call.text = "status undetermined"

\* C24: a failure while writing the debug log does not change what
\* create_invoice_and_get_link returns or raises: the result is the one the
\* same call gives when the log can be written.
C24_LogFailureHarmless ==
    CreateDone =>
        LET logged == create_invoice_and_get_link(creds, SampleDescription, SampleAmount,
                                                  SampleName, call.reply, TRUE)
        IN  /\ call.result.exc = logged.exc
            /\ call.result.msg = logged.msg
            /\ call.result.link = logged.link
            /\ call.result.invoice_id = logged.invoice_id

\* the log could not be written, nothing was recorded, and the call
\* returned the link of the reply
C24_Witness ==
    /\ CreateDone
    /\ ~call.writable
    /\ Count(call.result.effects, "POST CreateInvoice") = 1
    /\ Count(call.result.effects, "debug record") = 0
    /\ call.result.exc = "none"
    /\ call.result.link = ValueOf("invoiceUrl")

TokenDone == call.op = "build_invoice_jwt" /\ call.phase = "done"

\* str.split(sep) on bytes: the segments between the separators
RECURSIVE Split(_, _)
Split(b, sep) ==
    IF \A i \in 1..Len(b) : b[i] # sep THEN << b >>
    ELSE LET k == CHOOSE i \in 1..Len(b) : b[i] = sep /\ \A j \in 1..(i - 1) : b[j] # sep
         IN  << SubSeq(b, 1, k - 1) >> \o Split(SubSeq(b, k + 1, Len(b)), sep)

\* C21: with a login and Password1 set, build_invoice_jwt returns a token of
\* exactly three segments separated by ".", and the MAC of "header.payload"
\* under the key login:Password1, encoded as the code encodes it, is the
\* third segment.
C21_SigningRoundTrip ==
    (TokenDone /\ creds.MERCHANT_LOGIN # "" /\ creds.PASSWORD1 # "") =>
        LET parts == Split(call.token, 46)
            key == Utf8(creds.MERCHANT_LOGIN) \o << 58 >> \o Utf8(creds.PASSWORD1)
        IN  /\ ~call.raised
            /\ Len(parts) = 3
            /\ rstrip_pad(urlsafe_b64encode(hmac_md5(key, parts[1] \o << 46 >> \o parts[2])))
                   = parts[3]

\* a token was built for a description with a quote in it, from a payload
\* whose base64 form had to be padded
C21_Witness ==
    /\ TokenDone
    /\ ~call.raised
    /\ call.description = << 116, 34, 97 >>
    /\ Len(payload_json(call.payload_obj[1])) % 3 # 0
    /\ Len(Split(call.token, 46)) = 3

\* C22: the payload of every token has exactly one invoice item, with
\* Quantity 1 and a Cost equal to OutSum, the amount passed in.
C22_SingleLineItem ==
    (TokenDone /\ ~call.raised) =>
        LET payload_obj == call.payload_obj[1]
        IN  /\ Len(payload_obj.InvoiceItems) = 1
            /\ payload_obj.InvoiceItems[1].Quantity = 1
            /\ payload_obj.InvoiceItems[1].Cost = payload_obj.OutSum
            /\ payload_obj.OutSum = call.amount

\* a token for the amount 100 carries one item that costs 100
C22_Witness ==
    /\ TokenDone
    /\ ~call.raised
    /\ call.amount = 100
    /\ call.payload_obj[1].OutSum = 100
    /\ call.payload_obj[1].InvoiceItems[1].Cost = 100
    /\ call.payload_obj[1].InvoiceItems[1].Name = call.item_name

----------------------------------------------------------------------------
(* generate_payment and the listener side by side: SpecTraced *)

PressDone == call.op = "generate_payment" /\ call.phase = "done"
StepNames(steps) == [i \in 1..Len(steps) |-> steps[i].call]
DidIn(c, name) == \E i \in 1..Len(c.steps) : c.steps[i] = Step(name, TRUE)
Did(name) == DidIn(call, name)
Tried(name) == \E i \in 1..Len(call.steps) : call.steps[i].call = name
IsPrefix(s, t) == Len(s) <= Len(t) /\ \A i \in 1..Len(s) : s[i] = t[i]

\* C11: generate_payment calls CreateInvoice, then Insert, then the
\* notifier, in this order and each only after the one before it succeeded:
\* without a link no row is inserted and nothing is sent, and when the
\* insert fails nothing is sent.
C11_StepsInOrder ==
    PressDone =>
        /\ IsPrefix(StepNames(call.steps),
                    << "create_invoice_and_get_link", "insert_payment",
                       "build_qr_image_bytes", "send_qr_to_telegram" >>)
        /\ Tried("insert_payment") => Did("create_invoice_and_get_link")
        /\ Tried("build_qr_image_bytes") => Did("insert_payment")
        /\ Tried("send_qr_to_telegram") => Did("insert_payment")
        /\ Did("insert_payment") <=>
              \E i \in 1..Len(payments) : payments[i].created_at = call.now

\* the gateway gave a link, the row was inserted and the QR was sent
C11_Witness ==
    /\ PressDone
    /\ Did("create_invoice_and_get_link")
    /\ Did("insert_payment")
    /\ Did("send_qr_to_telegram")
    /\ \E i \in 1..Len(payments) :
          payments[i].created_at = call.now /\ payments[i].payment_url = call.result.link

\* C12: a failure of the notifier never blocks or undoes the ledger write:
\* when the QR is not delivered after the insert, the inserted row stays as
\* it is and generate_payment completes; when the admin alert fails in the
\* listener, the rows stay "paid" and the response is still 200.
C12_NotifierNeverBlocks ==
    [][/\ (/\ call.op = "generate_payment"
           /\ call.phase = "pending"
           /\ call'.phase = "done"
           /\ DidIn(call', "insert_payment")
           /\ ~DidIn(call', "send_qr_to_telegram"))
              => /\ call'.text = "created"
                 /\ Len(payments') = Len(payments) + 1
                 /\ SubSeq(payments', 1, Len(payments)) = payments
                 /\ payments'[Len(payments')].status = "created"
                 /\ payments'[Len(payments')].payment_url = call'.result.link
       /\ (lpc = "notify" /\ lfail' = "sendMessage")
              => /\ lresp' = << OK200 >>
                 /\ payments' = payments
                 /\ \A i \in RowsOf(payments, lorder) :
                       payments[i].status = "paid" => payments'[i].status = "paid"
      ]_vars

\* the press inserted its row although requests.post to Telegram raised, and
\* a confirmation was answered with 200 although the admin alert failed
C12_Witness ==
    /\ PressDone
    /\ call.qr = "transport error"
    /\ Did("insert_payment")
    /\ call.text = "created"
    /\ lpc = "done"
    /\ lfail = "sendMessage"
    /\ lresp = << OK200 >>
    /\ \E i \in 1..Len(payments) : payments[i].status = "paid"

\* C13: without a merchant login or the secret of the operation (Password1
\* for the invoice, Password2 for the status query) the operation fails with
\* the configuration error and makes no HTTP request, no debug-log record
\* and no ledger insert.
C13_NoCredentialsNoEffects ==
    /\ (/\ PressDone
        /\ Tried("create_invoice_and_get_link")
        /\ creds.MERCHANT_LOGIN = "" \/ creds.PASSWORD1 = "")
          => /\ call.result.exc = "RuntimeError"
             /\ call.result.msg = << "MerchantLogin / Password1 not set" >>
             /\ call.result.effects = <<>>
             /\ call.text = "error: invoice"
             /\ ~Tried("insert_payment")
             /\ \A i \in 1..Len(payments) : payments[i].created_at # call.now
    /\ (StateDone /\ (creds.MERCHANT_LOGIN = "" \/ creds.PASSWORD2 = ""))
          => /\ call.result.exc = "RuntimeError"
             /\ call.result.msg = << "MerchantLogin / Password2 not set" >>
             /\ call.result.effects = <<>>

\* Password1 is empty and the gateway would have answered with a link: the
\* press ended with the configuration error before any request
C13_Witness ==
    /\ PressDone
    /\ creds.PASSWORD1 = ""
    /\ call.reply.isSuccess = "true"
    /\ call.reply.data["invoiceUrl"] # NULL
    /\ Tried("create_invoice_and_get_link")
    /\ call.result.exc = "RuntimeError"
    /\ call.result.effects = <<>>
    /\ payments \in EarlierLedgers

----------------------------------------------------------------------------
(* The listener's inputs, and the listener against the insert *)

\* every combination of OutSum, InvId and SignatureValue absent or present
AnyFields ==
    { [OutSum |-> s, InvId |-> i, SignatureValue |-> v] :
        s \in { NULL, << "2", "5", "0" >> }, i \in { NULL, << "7" >> },
        v \in { NULL, << "s", "i", "g" >> } }

Request(f, o) ==
    [OutSum |-> f.OutSum, InvId |-> f.InvId, SignatureValue |-> f.SignatureValue,
     Shp_order |-> o]

\* C19: what the listener does with a request does not depend on
\* SignatureValue, OutSum and InvId, their absence included: two requests
\* with the same Shp_order give the same ledger, the same notification and
\* the same response.
C19_OnlyShpOrderCounts ==
    \A body \in { "GET", "POST" }, o \in ShpOrders, f \in AnyFields, dbFail \in BOOLEAN :
        handle(payments, body, Request(f, o), dbFail)
            = handle(payments, body, Request(NoFields, o), dbFail)

\* a request without SignatureValue, OutSum and InvId has marked the rows of
\* its order paid and is about to alert the admin
C19_Witness ==
    /\ lpc = "notify"
    /\ ldata = NoFields
    /\ RowsOf(payments, lorder) # {}
    /\ \A i \in RowsOf(payments, lorder) : payments[i].status = "paid"

\* C20: an Insert and a MarkPaid that run concurrently touch disjoint rows:
\* the row the Insert writes is not written by the MarkPaid, so the ledger
\* they leave does not depend on which of the two commits first.
C20_InsertMarkPaidCommute ==
    \A form \in FormStates, outcome \in Outcomes, shp_order \in OrderNumbers :
        (form.order # <<>> /\ _get_current_amount(form).ok /\ outcome.kind = "ok") =>
            LET Insert(rows) ==
                    insert_payment(rows, outcome.now, user_chat_id, <<>>, form.order,
                                   ServicesOf(form), _get_current_amount(form).amount,
                                   outcome.link, "created", outcome.invoice_id)
                MarkPaid(rows) == update_payment_status(rows, shp_order, "paid").rows
            IN  MarkPaid(Insert(payments)) = Insert(MarkPaid(payments))

\* C23: a readable confirmation whose Shp_order is absent, empty or matches
\* no row leaves the ledger as it is, sends no admin alert and is answered
\* with 200 OK; an admin alert is sent only while handling a confirmation
\* whose UPDATE counted at least one row.
C23_UnmatchedConfirmation ==
    [][/\ (gui' = gui /\ lpc \in { "idle", "done" }) => \A request \in ResultRequests :
             (/\ request.body # "POST unreadable"
              /\ ~Truthy(request.data.Shp_order)
                    \/ RowsOf(payments, request.data.Shp_order) = {}
              /\ Arrives(request, FALSE))
                 => /\ payments' = payments
                    /\ alerts' = alerts
                    /\ lpc' = "done"
                    /\ lresp' = << OK200 >>
       /\ \A o \in OrderNumbers :
             alerts'[o] > alerts[o]
                 => /\ lpc = "notify"
                    /\ lorder = o
                    /\ update_payment_status(payments, o, "paid").count # 0
      ]_vars

\* a confirmation that matched no row was answered with 200: the ledger has
\* a row, every row is still "created" and no alert has been sent
C23_Witness ==
    /\ lpc = "done"
    /\ lresp = << OK200 >>
    /\ lfail = "none"
    /\ payments # <<>>
    /\ \A i \in 1..Len(payments) : payments[i].status = "created"
    /\ \A o \in OrderNumbers : alerts[o] = 0

----------------------------------------------------------------------------
(* The operator's actions one at a time: SpecOperator *)

CheckDone == call.op = "check_online_status" /\ call.phase = "done"

\* C25: a status check looks at the at most 3 most recent attempts of the
\* order and sends one status query for each of them that has a stored
\* invoice id, none for an attempt without one; a query that fails is
\* reported for its attempt only, and the attempts after it are still
\* queried.
C25_OneQueryPerAttempt ==
    (CheckDone /\ call.text = "report") =>
        LET recent == get_recent_payments_for_order(payments, call.order, 3)
        IN  /\ call.attempts = Ids(recent)
            /\ Len(call.attempts) <= 3
            /\ \A i \in 1..Len(recent) :
                  /\ call.queried[i] <=> recent[i].invoice_id # NoInvoice
                  /\ call.lines[i] = "status query error"
                        <=> (call.queried[i] /\ call.replies[i].get = "timeout")

\* C30: generate_payment sends no invoice-creation request and inserts no
\* row when the order number is empty or the amount is not above zero,
\* whatever the form holds (an empty amount field and no items included).
C30_NoInvoiceWithoutAmount ==
    PressDone =>
        /\ Count(call.result.effects, "POST CreateInvoice") > 0
              => /\ call.form.order # <<>>
                 /\ _get_current_amount(call.form).ok
                 /\ _get_current_amount(call.form).amount > 0
        /\ Did("insert_payment")
              => /\ payments[Len(payments)].order_number # <<>>
                 /\ payments[Len(payments)].amount > 0

----------------------------------------------------------------------------
(* The store: SpecStore *)

\* C26: init_db never raises, keeps every row with the values it has,
\* leaves a table that has the invoice_id column, and changes nothing when
\* it runs again, whether it starts on an empty store, on a table without
\* invoice_id or on the current one.
C26_InitDbIdempotent ==
    [][call.op = "init_db" =>
          /\ ~call'.raised
          /\ schema'.table
          /\ "invoice_id" \in schema'.columns
          /\ Len(payments') = Len(payments)
          /\ \A i \in 1..Len(payments) :
                \A c \in DOMAIN payments[i] : payments'[i][c] = payments[i][c]
          /\ call.runs >= 1 => (payments' = payments /\ schema' = schema)
      ]_vars

\* init_db has run twice on a store that had the old table with a paid row:
\* the row is there, paid, and has no invoice id
C26_Witness ==
    /\ call.op = "init_db"
    /\ call.store = "old"
    /\ call.runs >= 2
    /\ "invoice_id" \in schema.columns
    /\ payments # <<>>
    /\ payments[1].status = "paid"
    /\ payments[1].invoice_id = NoInvoice

----------------------------------------------------------------------------
(* The listener against the insert, step by step: Spec *)

\* C27: whenever the listener sends the admin alert, the row it has read
\* with get_last_payment, the one the alert names, has status "paid", also
\* when rows are inserted between its UPDATE and its SELECT.
C27_AlertNamesPaidRow ==
    [][(lpc = "notify" /\ alerts'[lorder] > alerts[lorder]) =>
          /\ get_last_payment(payments, lorder) # <<>>
          /\ get_last_payment(payments, lorder)[1].status = "paid"
      ]_vars

----------------------------------------------------------------------------
(* The configuration: SpecConfig *)

\* the last load or save ran to its end
Applied == config.op # "none" /\ config.raised = "none"

\* C28: once load_or_init_config or save_config has applied a configuration
\* whose merchant login and two passwords are set, the names invoice.py holds
\* are those values, so that build_invoice_jwt and get_payment_state do not
\* fail as unconfigured, and send_qr_to_telegram reads the applied bot token
\* and chat id
C28_ModulesUseAppliedConfig ==
    (/\ config.imported
     /\ Applied
     /\ config.MERCHANT_LOGIN # "" /\ config.PASSWORD1 # "" /\ config.PASSWORD2 # "")
    => /\ creds = InvoiceNames(config)
       /\ build_invoice_jwt(creds, SampleDescription, SampleAmount, SampleName).ok
       /\ \A reply \in OpStateReplies :
             get_payment_state(creds, SampleInvId, reply).msg
                 # << "MerchantLogin / Password2 not set" >>
       /\ send_qr_to_telegram(config.telegram) = send_qr_to_telegram(config.APP_CONFIG)

\* the settings the names of config.py hold
Memory(g) ==
    << g.MERCHANT_LOGIN, g.PASSWORD1, g.PASSWORD2, g.BOT_TOKEN, g.ADMIN_ID, g.USER_CHAT_ID,
       g.RESULT_PORT, g.APP_CONFIG >>

\* every name holds the value of cfg
Reflects(g, cfg) ==
    /\ g.APP_CONFIG = cfg
    /\ g.MERCHANT_LOGIN = cfg.merchant_login
    /\ g.PASSWORD1 = cfg.password1
    /\ g.PASSWORD2 = cfg.password2
    /\ g.BOT_TOKEN = cfg.telegram_token
    /\ IsInt(Or(cfg.admin_id, "0")) /\ g.ADMIN_ID = IntValue[Or(cfg.admin_id, "0")]
    /\ IsInt(Or(cfg.user_chat_id, "0")) /\ g.USER_CHAT_ID = IntValue[Or(cfg.user_chat_id, "0")]
    /\ IsInt(Or(cfg.result_port, "8085")) /\ g.RESULT_PORT = IntValue[Or(cfg.result_port, "8085")]

\* C29: a save of the settings form is all or nothing: the file and every
\* name of config.py hold the new configuration, or an error is raised and
\* the file and the names are as they were
C29_SaveAllOrNothing ==
    [][ (config'.saves = config.saves + 1)
        => \/ /\ config'.raised = "none"
              /\ config'.file = Stored(config'.arg)
              /\ Reflects(config', config'.arg)
           \/ /\ config'.raised # "none"
              /\ config'.file = config.file
              /\ Memory(config') = Memory(config) ]_vars
====
